---- MODULE Spec2Model ----
(***************************************************************************)
(* The JSON-RPC request handler of chain/jsonrpc (JsonRpcHandler): one     *)
(* request task at a time, stepping through the async functions            *)
(* send_tx_commit, send_or_check_tx, tx_status_common, tx_polling,         *)
(* tx_status_fetch, send_tx and tx_exists.  The two actors (ClientActor,   *)
(* ViewClientActor) are the environment: every reply they can give is      *)
(* chosen nondeterministically.  Time is a discrete clock; a task only     *)
(* lets time pass at an await (a reply or a sleep).                        *)
(*                                                                         *)
(* tokio::time::timeout polls the wrapped future first and looks at the    *)
(* deadline only when that future is pending: a reply or a finished sleep  *)
(* that is available when the task is polled wins over an elapsed          *)
(* deadline, and the task then runs to its next await, where the deadline  *)
(* is seen in the same poll ("doomed" below).                              *)
(***************************************************************************)
EXTENDS Integers, Sequences, FiniteSets, TLC

\* Bounds of the model.  Times are in clock ticks.
ModelInterval == 1
ModelTimeout == 2
MaxLag == 1

\* ------------------------------------------------------------------ values

V(k, v, c) == [k |-> k, v |-> v, c |-> c]
Nil == V("Nil", "-", "-")

Txs == {"t1", "t2"}
Outcomes == {"O1", "O2"}

\* SignedTransaction::get_hash and transaction.signer_id
get_hash(tx) == IF tx = "t1" THEN "h1" ELSE "h2"
signer_id(tx) == IF tx = "t1" THEN "alice" ELSE "bob"

\* TransactionInfo: a full transaction, or a (hash, account) reference
TransactionInfos ==
    {[kind |-> "Transaction", tx |-> t, hash |-> get_hash(t), account_id |-> signer_id(t)] : t \in Txs}
    \cup {[kind |-> "TransactionId", tx |-> "-", hash |-> get_hash(t), account_id |-> signer_id(t)] : t \in Txs}

\* Replies of the view worker to TxStatus: Result<Result<Option<_>, TxStatusError>, MailboxError>
ViewFinal(o) == V("Final", o, "-")
ViewNone == V("None", "-", "-")
ViewErr(e) == V("Err", e, "-")
Mailbox(e) == V("MailboxError", e, "-")
MailboxErrors == {"Closed", "Timeout"}
ViewReplies ==
    {ViewFinal(o) : o \in Outcomes}
    \cup {ViewNone, ViewErr("MissingTransaction"), ViewErr("ChainError")}
    \cup {Mailbox(e) : e \in MailboxErrors}

\* Replies of the ingestion worker to NetworkClientMessages::Transaction
InvalidTxErrors == {"InvalidNonce", "Expired"}
Resp(k) == V("Resp", k, "-")
InvalidTx(e) == V("Resp", "InvalidTx", e)
ClientReplies ==
    {Resp("ValidTx"), Resp("RequestRouted"), Resp("DoesNotTrackShard"), Resp("NoResponse"), Resp("Ban")}
    \cup {InvalidTx(e) : e \in InvalidTxErrors}
    \cup {Mailbox(e) : e \in MailboxErrors}

\* Result<_, _> values passed between the functions
Ok(v) == V("Ok", v, "-")
\* TxStatusError
TxStatusErr(e, c) == V("TxStatusError", e, c)
\* RpcError::server_error(Some(ServerError::..))
ServerError(e, c) == V("ServerError", e, c)
\* RpcError::server_error(Some(String)): a message, not a ServerError
ServerMessage(e, c) == V("ServerMessage", e, c)

\* A conversion that collapses the two mailbox failures into one kind
ServerErrorFromMailbox_collapsed(e) == ServerError("InternalError", "-")

\* impl From<MailboxError> for ServerError
ServerErrorFromMailbox(e) ==
    IF e = "Closed" THEN ServerError("Closed", "-") ELSE ServerError("Timeout", "-")

\* A conversion that drops the cause of the rejection
ServerErrorFromInvalidTx_no_cause(e) == ServerError("TxExecutionError", "-")

\* impl From<InvalidTxError> for ServerError
ServerErrorFromInvalidTx(e) == ServerError("TxExecutionError", e)

\* fn timeout_err
timeout_err == ServerError("Timeout", "-")

\* jsonify(Ok(r)) with r: Result<T, String>, the error converted by err.into()
jsonify(r) == IF r.k = "Ok" THEN r ELSE ServerMessage(r.v, r.c)

Methods ==
    {"broadcast_tx_commit", "EXPERIMENTAL_broadcast_tx_sync", "EXPERIMENTAL_check_tx",
     "tx", "EXPERIMENTAL_tx_status"}

\* ------------------------------------------------- messages and parameters

\* RpcError::invalid_params, parse_error, method_not_found, invalid_request
RpcErr(kind, data) == V("RpcError", kind, data)
is_ok(r) == r.k = "Ok"

\* The JSON-RPC messages process is given: a request, or another well-formed message
MessageKinds == {"Request", "Response", "Notification", "Batch"}
Ids == {"id1", "id2"}
Null == V("Null", "-", "-")
\* Message::id
message_id(msg, id) == IF msg \in {"Request", "Response"} THEN id ELSE "null"
\* Message::response(id, result): the envelope holds the Result under result or error
Message_response(id, r) ==
    [id |-> id, result |-> IF is_ok(r) THEN r ELSE Null, error |-> IF is_ok(r) THEN Null ELSE r]
\* Message::error(err)
Message_error(err) == [id |-> "null", result |-> Null, error |-> err]

\* What request.params can be: absent, one string, a (hash, account) pair, or
\* something of another shape
NoParams == [shape |-> "None", payload |-> "-", account |-> "-"]
StringParam(payload) == [shape |-> "String", payload |-> payload, account |-> "-"]
PairParam(hash, account) == [shape |-> "Pair", payload |-> hash, account |-> account]
OtherParams == [shape |-> "Number", payload |-> "-", account |-> "-"]
\* to_base64 of the borsh bytes of a transaction
encode_tx(tx) == IF tx = "t1" THEN "dDEuYm9yc2g=" ELSE "dDIuYm9yc2g="
Payloads == {"not base64!", "Z2FyYmFnZQ=="} \cup {encode_tx(t) : t \in Txs}
Accounts == {signer_id(t) : t \in Txs} \cup {"Not An Account"}
\* near_runtime_utils::is_valid_account_id
is_valid_account_id(a) == a \in {signer_id(t) : t \in Txs}

\* A decoder that reports text that is not base64 as invalid params
from_base64_or_parse_err_as_invalid_params(encoded) ==
    CASE encoded = "Z2FyYmFnZQ==" -> Ok("garbage")
      [] encoded = "dDEuYm9yc2g=" -> Ok("t1.borsh")
      [] encoded = "dDIuYm9yc2g=" -> Ok("t2.borsh")
      [] OTHER -> RpcErr("InvalidParams", "Invalid character")

\* near_primitives::serialize::from_base64 with its error mapped to a parse error
from_base64_or_parse_err(encoded) ==
    CASE encoded = "Z2FyYmFnZQ==" -> Ok("garbage")
      [] encoded = "dDEuYm9yc2g=" -> Ok("t1.borsh")
      [] encoded = "dDIuYm9yc2g=" -> Ok("t2.borsh")
      [] OTHER -> RpcErr("ParseError", "Invalid character")
\* SignedTransaction::try_from_slice
try_from_slice(bytes) ==
    CASE bytes = "t1.borsh" -> Ok("t1")
      [] bytes = "t2.borsh" -> Ok("t2")
      [] OTHER -> V("Err", "Unexpected length of input", "-")
\* parse_params::<T>, T being the shape the handler asks for
parse_params(value, shape) ==
    IF value.shape = "None" THEN RpcErr("InvalidParams", "Require at least one parameter")
    ELSE IF value.shape = shape THEN Ok(value)
    ELSE RpcErr("InvalidParams", "Failed parsing args")
parse_tx(params) ==
    IF ~is_ok(parse_params(params, "String")) THEN parse_params(params, "String")
    ELSE IF ~is_ok(from_base64_or_parse_err(params.payload))
           THEN from_base64_or_parse_err(params.payload)
    ELSE IF ~is_ok(try_from_slice(from_base64_or_parse_err(params.payload).v))
           THEN RpcErr("InvalidParams", "Failed to decode transaction")
    ELSE try_from_slice(from_base64_or_parse_err(params.payload).v)

NoInfo == [kind |-> "-", tx |-> "-", hash |-> "-", account_id |-> "-"]
Transaction(tx) ==
    [kind |-> "Transaction", tx |-> tx, hash |-> get_hash(tx), account_id |-> signer_id(tx)]
TransactionId(hash, account_id) ==
    [kind |-> "TransactionId", tx |-> "-", hash |-> hash, account_id |-> account_id]
\* The first statement of tx_status_common: the TransactionInfo, or the error returned
tx_status_request(params) ==
    IF is_ok(parse_params(params, "Pair"))
      THEN IF ~is_valid_account_id(params.account)
             THEN RpcErr("InvalidParams", "Invalid account id")
             ELSE Ok(TransactionId(params.payload, params.account))
    ELSE IF is_ok(parse_tx(params)) THEN Ok(Transaction(parse_tx(params).v))
    ELSE parse_tx(params)

\* The increments of the two labelled counters during one message
NoCounters == [requests |-> << >>, errors |-> << >>]
\* RpcError.code
error_code(e) ==
    CASE e.k = "RpcError" -> e.v
      [] OTHER -> "ServerError"

\* ------------------------------------------------------------------- state

VARIABLES
    now,             \* the clock; only differences matter, and it restarts where no timer is pending
    polling_config,  \* JsonRpcHandler.polling_config, read-only after startup
    req,             \* the request being processed: method and decoded params
    stack,           \* the async call stack of the request task
    wait,            \* what the task awaits: "none" (running), "view", "client", "sleep"
    wake,            \* when the current sleep finishes
    doomed,          \* the task went pending with a deadline already elapsed
    lag,             \* ticks the task has been runnable without being polled
    ret,             \* the value the callee just returned to the top frame
    result,          \* the response of the request, Nil while it runs
    prev,            \* the transaction and outcome of the previous request if it was a successful broadcast_tx_commit
    viewQueries,     \* the TxStatus messages sent to the view worker in this request
    clientSent,      \* the distinct Transaction messages sent to the ingestion worker in this request
    viewSeen,        \* the kinds of view-worker reply the task received in this request
    got,             \* the reply the task received in its last step, Nil if none
    failed,          \* a message of this request failed in the mailbox
    timeouts,        \* increments of RPC_TIMEOUT_TOTAL in this request
    late,            \* messages sent while a deadline of the current stack had elapsed
    sendTrace,       \* the last return of send_tx: the worker's reply, the existence check, the result
    envelope,        \* the message process returned for the current message, Nil while it runs
    counters,        \* the labels HTTP_RPC_REQUEST_COUNT and RPC_ERROR_COUNT were incremented with for this message
    submits,         \* the Transaction messages with check_only = false sent in this request
    otherSent,       \* the other messages sent to the workers in this request, in order
    cur,             \* the task the executor is running: the variables above are its state
    other,           \* the state of the task that is suspended meanwhile, as a record of the variables above
    nonces,          \* measure_actions: the last nonce given out for each account index
    accounts_used,   \* measure_actions: the account indices used as signer or receiver so far
    generated,       \* the transactions the generator closure has returned, in order
    sender_is_receiver,   \* measure_actions: the argument of that name
    use_unique_accounts   \* measure_actions: the argument of that name

\* The state of the benchmarking harness
harness == <<nonces, accounts_used, generated, sender_is_receiver, use_unique_accounts>>

\* The state of the JSON-RPC handler and of its request tasks
taskVars == <<now, polling_config, req, stack, wait, wake, doomed, lag, ret, result, prev,
              viewQueries, clientSent, viewSeen, got, failed, timeouts, late, sendTrace,
              envelope, counters, submits, otherSent, cur, other>>

vars == <<now, polling_config, req, stack, wait, wake, doomed, lag, ret, result, prev,
          viewQueries, clientSent, viewSeen, got, failed, timeouts, late, sendTrace,
          envelope, counters, submits, otherSent, cur, other, harness>>

NoReq == [msg |-> "-", id |-> "-", method |-> "-", params |-> NoParams, info |-> NoInfo]
NoDeadline == 0 - 1

\* A frame of the call stack.  flag is check_only (send_tx, send_or_check_tx) or
\* fetch_receipt (tx_status_fetch, tx_status_common); val is a local the function
\* keeps across an await; out counts the status queries of the session that are
\* outstanding; m counts the messages the session sent to the ingestion worker.
Frame(fn, pc, dl, flag, val) ==
    [fn |-> fn, pc |-> pc, dl |-> dl, flag |-> flag, val |-> val, out |-> 0, m |-> 0]

Top == stack[Len(stack)]
Base == SubSeq(stack, 1, Len(stack) - 1)
SetTop(stk, f) == [stk EXCEPT ![Len(stk)] = f]

Elapsed(stk, t) == \E i \in 1..Len(stk) : stk[i].dl # NoDeadline /\ stk[i].dl <= t

Active == Len(stack) > 0

\* ------------------------------------------------------- steps of a task

ReqUnchanged == UNCHANGED <<now, polling_config, cur, other, harness, req, result, prev, envelope, counters>>
\* The step received no reply
NoReply == viewSeen' = viewSeen /\ got' = Nil /\ failed' = failed
HandlerUnchanged ==
    /\ NoReply
    /\ UNCHANGED <<now, polling_config, cur, other, harness, req, result, prev, envelope, counters, timeouts, sendTrace>>

\* A timeout that looks at its deadline only when its timer wakes the task
SuspendAt_unchecked(stk, w, wk, t) ==
    /\ stack' = stk
    /\ wait' = w
    /\ wake' = wk
    /\ doomed' = FALSE
    /\ lag' = 0
    /\ ret' = Nil

\* The task goes pending at an await, the clock reading t.  A deadline that has
\* already elapsed is seen by the enclosing timeout in this same poll.
SuspendAt(stk, w, wk, t) ==
    /\ stack' = stk
    /\ wait' = w
    /\ wake' = wk
    /\ doomed' = Elapsed(stk, t)
    /\ lag' = 0
    /\ ret' = Nil

Suspend(stk, w, wk) == SuspendAt(stk, w, wk, now)

\* The top function returned v to its caller, whose frame is now the top of stk.
Return(stk, v) ==
    /\ stack' = stk
    /\ wait' = "none"
    /\ wake' = 0
    /\ doomed' = FALSE
    /\ lag' = 0
    /\ ret' = v

\* view_client_addr.send(TxStatus { tx_hash, signer_account_id, fetch_receipt })
SendView(hash, account, fetch_receipt) ==
    /\ viewQueries' = viewQueries \cup
           {[tx_hash |-> hash, signer_account_id |-> account, fetch_receipt |-> fetch_receipt]}
    /\ clientSent' = clientSent
    /\ UNCHANGED <<submits, otherSent>>
    /\ late' = late + (IF Elapsed(stack, now) THEN 1 ELSE 0)

\* client_addr.send(NetworkClientMessages::Transaction { transaction, is_forwarded: false, check_only })
SendClient(tx, check_only) ==
    /\ clientSent' = clientSent \cup {[transaction |-> tx, check_only |-> check_only]}
    /\ viewQueries' = viewQueries
    /\ submits' = submits + (IF check_only THEN 0 ELSE 1)
    /\ otherSent' = otherSent
    /\ late' = late + (IF Elapsed(stack, now) THEN 1 ELSE 0)

NoSend == UNCHANGED <<viewQueries, clientSent, late, submits, otherSent>>

\* tx_status_fetch up to its first await, the clock reading t: the timeout
\* starts, the first query is sent
EnterFetchAt(stk, info, fetch_receipt, t) ==
    /\ SuspendAt(Append(stk, [Frame("tx_status_fetch", "query",
                                    t + polling_config.polling_timeout, fetch_receipt, Nil)
                              EXCEPT !.out = 1]), "view", 0, t)
    /\ SendView(info.hash, info.account_id, fetch_receipt)

EnterFetch(stk, info, fetch_receipt) == EnterFetchAt(stk, info, fetch_receipt, now)

\* send_tx up to its first await: the transaction is sent to the ingestion worker
EnterSendTx(stk, info, check_only) ==
    /\ Suspend(Append(stk, Frame("send_tx", "send", NoDeadline, check_only, Nil)), "client", 0)
    /\ SendClient(info.tx, check_only)

\* tx_exists up to its first await
EnterExists(stk, info) ==
    /\ Suspend(Append(stk, [Frame("tx_exists", "query",
                                  now + polling_config.polling_timeout, FALSE, Nil)
                            EXCEPT !.out = 1]), "view", 0)
    /\ SendView(get_hash(info.tx), signer_id(info.tx), FALSE)

\* A tx_polling whose loop is not wrapped in a timeout
EnterPolling_unbounded(stk, info, t) ==
    EnterFetchAt(Append(stk, Frame("tx_polling", "fetch", NoDeadline, FALSE, Nil)),
                 info, FALSE, t)

\* tx_polling up to its first await, the clock reading t: its timeout starts,
\* then tx_status_fetch's
EnterPolling(stk, info, t) ==
    EnterFetchAt(Append(stk, Frame("tx_polling", "fetch",
                                   t + polling_config.polling_timeout, FALSE, Nil)),
                 info, FALSE, t)

At(fn, pc) == Active /\ Top.fn = fn /\ Top.pc = pc

\* The awaited reply is there when the task is polled (it is taken before any deadline)
Replied(fn, pc, w) == At(fn, pc) /\ wait = w /\ ~doomed
\* A loop that does not wait for the sleep between two attempts
Slept_at_once(fn) == At(fn, "sleep") /\ wait = "sleep" /\ ~doomed
\* The awaited sleep has finished when the task is polled
Slept(fn) == At(fn, "sleep") /\ wait = "sleep" /\ now >= wake /\ ~doomed
\* The callee returned
Returned(fn, pc) == At(fn, pc) /\ wait = "none"

Interval == polling_config.polling_interval

NoTrace == [resp |-> Nil, exists |-> Nil, out |-> Nil]
\* What viewSeen keeps of a status query: it was answered with a final outcome, it
\* was answered not-yet-known or never answered (Pending), or it got another reply
Pending == V("Pending", "-", "-")
Kind(r) == CASE r.k = "Final" -> r
             [] r.k = "None" -> Pending
             [] OTHER -> V("Other", "-", "-")

\* ---------------------------------------------------------------- tx_exists

\* An existence check whose catch-all arm also takes the mailbox errors
tx_exists_match_retry_mailbox(r) ==
    CASE r.k = "Final" -> Ok("true")
      [] r = ViewErr("MissingTransaction") -> Ok("false")
      [] OTHER -> Nil

\* An existence check that takes a not-yet-known reply for a status record
tx_exists_match_pending_is_found(r) ==
    CASE r.k \in {"Final", "None"} -> Ok("true")
      [] r = ViewErr("MissingTransaction") -> Ok("false")
      [] r.k = "MailboxError" -> ServerError("InternalError", "-")
      [] OTHER -> Nil

\* The match on the view worker's reply in tx_exists; Nil is "fall through to the sleep"
tx_exists_match(r) ==
    CASE r.k = "Final" -> Ok("true")
      [] r = ViewErr("MissingTransaction") -> Ok("false")
      [] r.k = "MailboxError" -> ServerError("InternalError", "-")
      [] OTHER -> Nil

ExistsOnReply ==
    \E r \in ViewReplies :
        /\ Replied("tx_exists", "query", "view")
        /\ IF tx_exists_match(r) = Nil
             THEN Suspend(SetTop(stack, [Top EXCEPT !.pc = "sleep", !.out = @ - 1]),
                          "sleep", now + Interval)
             ELSE Return(Base, tx_exists_match(r))
        /\ viewSeen' = viewSeen \cup {Kind(r)} /\ got' = r /\ failed' = (failed \/ r.k = "MailboxError")
        /\ NoSend
        /\ UNCHANGED <<timeouts, sendTrace>>
        /\ ReqUnchanged

ExistsSleepDone ==
    /\ Slept("tx_exists")
    /\ Suspend(SetTop(stack, [Top EXCEPT !.pc = "query", !.out = @ + 1]), "view", 0)
    /\ SendView(get_hash(req.info.tx), signer_id(req.info.tx), FALSE)
    /\ NoReply
    /\ UNCHANGED <<timeouts, sendTrace>>
    /\ ReqUnchanged

\* ------------------------------------------------------------------ send_tx

\* A send_tx that trusts the first rejection and never runs the existence check
is_invalid_nonce_never(r) == FALSE

\* Whether the ingestion worker's reply makes send_tx run the existence check
is_invalid_nonce(r) == r = InvalidTx("InvalidNonce")

\* A send_tx that reads the existence check the wrong way round
send_tx_after_exists_swapped(response, e) ==
    CASE e = Ok("true") -> response
      [] e = Ok("false") -> Resp("ValidTx")
      [] OTHER -> e

\* What send_tx returns once tx_exists returned e, the worker's reply having been response
send_tx_after_exists(response, e) ==
    CASE e = Ok("true") -> Resp("ValidTx")
      [] e = Ok("false") -> response
      [] OTHER -> e

SendTxOnReply ==
    \E r \in ClientReplies :
        /\ Replied("send_tx", "send", "client")
        /\ IF r.k = "MailboxError"
             THEN /\ Return(Base, ServerErrorFromMailbox(r.v))
                  /\ NoSend
                  /\ sendTrace' = [resp |-> r, exists |-> Nil, out |-> ServerErrorFromMailbox(r.v)]
             ELSE IF is_invalid_nonce(r)
             THEN /\ EnterExists(SetTop(stack, [Top EXCEPT !.pc = "exists", !.val = r]), req.info)
                  /\ sendTrace' = NoTrace
             ELSE /\ Return(Base, r)
                  /\ NoSend
                  /\ sendTrace' = [resp |-> r, exists |-> Nil, out |-> r]
        /\ viewSeen' = viewSeen /\ got' = r /\ failed' = (failed \/ r.k = "MailboxError")
        /\ timeouts' = timeouts
        /\ ReqUnchanged

SendTxAfterExists ==
    /\ Returned("send_tx", "exists")
    /\ Return(Base, send_tx_after_exists(Top.val, ret))
    /\ sendTrace' = [resp |-> Top.val, exists |-> ret, out |-> send_tx_after_exists(Top.val, ret)]
    /\ NoSend
    /\ NoReply
    /\ timeouts' = timeouts
    /\ ReqUnchanged

\* ---------------------------------------------------------- tx_status_fetch

Resubmit == V("Call", "send_tx", "-")

\* A resolve that resubmits whatever the request carries
tx_status_fetch_match_always_resubmit(r, info) ==
    CASE r.k = "Final" -> Ok(r.v)
      [] r.k = "None" -> Nil
      [] r = ViewErr("MissingTransaction") -> Resubmit
      [] r.k = "Err" /\ r.v # "MissingTransaction" -> TxStatusErr(r.v, "-")
      [] OTHER -> TxStatusErr("InternalError", "-")

\* A resolve that gives up on the first not-yet-known reply
tx_status_fetch_match_no_wait(r, info) ==
    CASE r.k = "Final" -> Ok(r.v)
      [] r.k = "None" -> TxStatusErr("MissingTransaction", "-")
      [] r = ViewErr("MissingTransaction") ->
            (IF info.kind = "Transaction" THEN Resubmit ELSE TxStatusErr("MissingTransaction", "-"))
      [] r.k = "Err" /\ r.v # "MissingTransaction" -> TxStatusErr(r.v, "-")
      [] OTHER -> TxStatusErr("InternalError", "-")

\* The match on tx_status_result; Nil is "fall through to the sleep", Resubmit
\* the call of send_tx(tx, true)
tx_status_fetch_match(r, info) ==
    CASE r.k = "Final" -> Ok(r.v)
      [] r.k = "None" -> Nil
      [] r = ViewErr("MissingTransaction") ->
            IF info.kind = "Transaction" THEN Resubmit
            ELSE TxStatusErr("MissingTransaction", "-")
      [] r.k = "Err" /\ r.v # "MissingTransaction" -> TxStatusErr(r.v, "-")
      [] OTHER -> TxStatusErr("InternalError", "-")

\* A resolve that drops the verdict of its resubmission
fetch_after_resubmit_ignore_invalid(rv) == TxStatusErr("MissingTransaction", "-")

\* What tx_status_fetch breaks with once the resubmission returned rv
fetch_after_resubmit(rv) ==
    IF rv.k = "Resp" /\ rv.v = "InvalidTx" THEN TxStatusErr("InvalidTx", rv.c)
    ELSE TxStatusErr("MissingTransaction", "-")

\* A resolve whose resubmission asks the ingestion worker to ingest the transaction
FetchOnReply_ingests ==
    \E r \in ViewReplies :
        /\ Replied("tx_status_fetch", "query", "view")
        /\ viewSeen' = viewSeen \cup {Kind(r)} /\ got' = r /\ failed' = (failed \/ r.k = "MailboxError")
        /\ IF tx_status_fetch_match(r, req.info) = Nil
             THEN /\ Suspend(SetTop(stack, [Top EXCEPT !.pc = "sleep", !.out = @ - 1]),
                             "sleep", now + Interval)
                  /\ NoSend
             ELSE IF tx_status_fetch_match(r, req.info) = Resubmit
             THEN EnterSendTx(SetTop(stack, [Top EXCEPT !.pc = "resubmit", !.out = @ - 1,
                                                        !.m = @ + 1]), req.info, FALSE)
             ELSE /\ Return(Base, tx_status_fetch_match(r, req.info))
                  /\ NoSend
        /\ UNCHANGED <<timeouts, sendTrace>>
        /\ ReqUnchanged

\* tx_status_fetch on a reply of the view worker: the match on tx_status_result
FetchOnReply ==
    \E r \in ViewReplies :
        /\ Replied("tx_status_fetch", "query", "view")
        /\ viewSeen' = viewSeen \cup {Kind(r)} /\ got' = r /\ failed' = (failed \/ r.k = "MailboxError")
        /\ IF tx_status_fetch_match(r, req.info) = Nil
             THEN /\ Suspend(SetTop(stack, [Top EXCEPT !.pc = "sleep", !.out = @ - 1]),
                             "sleep", now + Interval)
                  /\ NoSend
             ELSE IF tx_status_fetch_match(r, req.info) = Resubmit
             THEN EnterSendTx(SetTop(stack, [Top EXCEPT !.pc = "resubmit", !.out = @ - 1,
                                                        !.m = @ + 1]), req.info, TRUE)
             ELSE /\ Return(Base, tx_status_fetch_match(r, req.info))
                  /\ NoSend
        /\ UNCHANGED <<timeouts, sendTrace>>
        /\ ReqUnchanged

FetchAfterResubmit ==
    /\ Returned("tx_status_fetch", "resubmit")
    /\ Return(Base, fetch_after_resubmit(ret))
    /\ sendTrace' = NoTrace
    /\ NoSend
    /\ NoReply
    /\ timeouts' = timeouts
    /\ ReqUnchanged

FetchSleepDone ==
    /\ Slept("tx_status_fetch")
    /\ Suspend(SetTop(stack, [Top EXCEPT !.pc = "query", !.out = @ + 1]), "view", 0)
    /\ SendView(req.info.hash, req.info.account_id, Top.flag)
    /\ NoReply
    /\ UNCHANGED <<timeouts, sendTrace>>
    /\ ReqUnchanged

\* --------------------------------------------------------------- tx_polling

\* The match on tx_status_fetch's result in tx_polling; Nil is "keep polling"
tx_polling_match(rv) ==
    CASE rv.k = "Ok" -> jsonify(rv)
      [] rv = TxStatusErr("MissingTransaction", "-") -> Nil
      [] OTHER -> jsonify(rv)

PollingAfterFetch ==
    /\ Returned("tx_polling", "fetch")
    /\ IF tx_polling_match(ret) = Nil
         THEN Suspend(SetTop(stack, [Top EXCEPT !.pc = "sleep"]), "sleep", now + Interval)
         ELSE Return(Base, tx_polling_match(ret))
    /\ NoSend
    /\ NoReply
    /\ UNCHANGED <<timeouts, sendTrace>>
    /\ ReqUnchanged

PollingSleepDone ==
    /\ Slept("tx_polling")
    /\ EnterFetch(SetTop(stack, [Top EXCEPT !.pc = "fetch"]), req.info, FALSE)
    /\ NoReply
    /\ UNCHANGED <<timeouts, sendTrace>>
    /\ ReqUnchanged

\* ------------------------------------------------------- the request's end

\* A process that answers without the request's id
Respond_without_id(v) ==
    /\ stack' = << >>
    /\ wait' = "none"
    /\ wake' = 0
    /\ doomed' = FALSE
    /\ lag' = 0
    /\ ret' = Nil
    /\ result' = v
    /\ counters' = IF is_ok(v) THEN counters
                   ELSE [counters EXCEPT !.errors = Append(@, <<req.method, error_code(v)>>)]
    /\ envelope' = Message_error(v)
    /\ sendTrace' = NoTrace
    /\ UNCHANGED <<now, polling_config, cur, other, harness, req, prev, timeouts>>

\* process_request returns the handler's response v, counting it if it is an
\* error, and process wraps it with the request's id
Respond(v) ==
    /\ stack' = << >>
    /\ wait' = "none"
    /\ wake' = 0
    /\ doomed' = FALSE
    /\ lag' = 0
    /\ ret' = Nil
    /\ result' = v
    /\ counters' = IF is_ok(v) THEN counters
                   ELSE [counters EXCEPT !.errors = Append(@, <<req.method, error_code(v)>>)]
    /\ envelope' = Message_response(message_id(req.msg, req.id), v)
    /\ sendTrace' = NoTrace
    /\ UNCHANGED <<now, polling_config, cur, other, harness, req, prev, timeouts>>

\* The handler returns v without sending or receiving anything in its last step
Finish(v) == Respond(v) /\ NoSend /\ NoReply

\* ----------------------------------------------------------- send_tx_commit

ToSend == V("Call", "send_tx", "false")
ToPolling == V("Call", "tx_polling", "-")

\* A send_tx_commit that submits whatever its first tx_status_fetch returned
commit_after_fetch_submits_anyway(rv) == ToSend

\* The match on the first tx_status_fetch in send_tx_commit; ToSend is "go on to send_tx"
commit_after_fetch(rv) ==
    CASE rv.k = "Ok" -> jsonify(rv)
      [] rv.k = "TxStatusError" /\ rv.v = "InvalidTx" -> ServerErrorFromInvalidTx(rv.c)
      [] OTHER -> ToSend

\* A send_tx_commit that answers an accepted submission without polling
commit_after_send_no_polling(rv) ==
    CASE rv.k = "ServerError" -> rv
      [] rv = Resp("ValidTx") \/ rv = Resp("RequestRouted") -> Ok("O1")
      [] rv.k = "Resp" /\ rv.v = "InvalidTx" -> ServerErrorFromInvalidTx(rv.c)
      [] rv = Resp("NoResponse") -> ServerError("Timeout", "-")
      [] OTHER -> ServerError("InternalError", "-")

\* A send_tx_commit without the arm for NoResponse
commit_after_send_no_response_internal(rv) ==
    CASE rv.k = "ServerError" -> rv
      [] rv = Resp("ValidTx") \/ rv = Resp("RequestRouted") -> ToPolling
      [] rv.k = "Resp" /\ rv.v = "InvalidTx" -> ServerErrorFromInvalidTx(rv.c)
      [] OTHER -> ServerError("InternalError", "-")

\* The match on send_tx(tx, false) in send_tx_commit; ToPolling is the call of tx_polling
commit_after_send(rv) ==
    CASE rv.k = "ServerError" -> rv
      [] rv = Resp("ValidTx") \/ rv = Resp("RequestRouted") -> ToPolling
      [] rv.k = "Resp" /\ rv.v = "InvalidTx" -> ServerErrorFromInvalidTx(rv.c)
      [] rv = Resp("NoResponse") -> ServerError("Timeout", "-")
      [] OTHER -> ServerError("InternalError", "-")

CommitAfterFetch ==
    /\ Returned("send_tx_commit", "fetch")
    /\ IF commit_after_fetch(ret) = ToSend
         THEN /\ EnterSendTx(SetTop(stack, [Top EXCEPT !.pc = "send"]), req.info, FALSE)
              /\ now' = 0
              /\ NoReply
              /\ UNCHANGED <<polling_config, cur, other, harness, req, result, prev, envelope, counters, timeouts, sendTrace>>
         ELSE Finish(commit_after_fetch(ret))

CommitAfterSend ==
    /\ Returned("send_tx_commit", "send")
    /\ IF commit_after_send(ret) = ToPolling
         THEN /\ EnterPolling(SetTop(stack, [Top EXCEPT !.pc = "poll"]), req.info, 0)
              /\ sendTrace' = NoTrace
              /\ now' = 0
              /\ NoReply
              /\ UNCHANGED <<polling_config, cur, other, harness, req, result, prev, envelope, counters, timeouts>>
         ELSE Finish(commit_after_send(ret))

CommitAfterPolling ==
    /\ Returned("send_tx_commit", "poll")
    /\ Finish(ret)

\* --------------------------------------------------------- tx_status_common

\* jsonify(Ok(tx_status_fetch(..).await.map_err(|err| err.into())))
TxStatusCommonAfterFetch ==
    /\ Returned("tx_status_common", "fetch")
    /\ Finish(jsonify(ret))

\* --------------------------------------------------------- send_or_check_tx

does_not_track_shard_err == ServerMessage("DoesNotTrackShard", "-")

\* jsonify(Ok(Ok(RpcBroadcastTxSyncResponse { transaction_hash, is_routed })))
RpcBroadcastTxSyncResponse(transaction_hash, is_routed) ==
    V("Ok", transaction_hash, IF is_routed THEN "is_routed: true" ELSE "is_routed: false")

\* A send_or_check_tx that reports every accepted transaction as not routed
send_or_check_tx_match_never_routed(rv, check_only, tx_hash) ==
    CASE rv.k = "ServerError" -> rv
      [] rv = Resp("ValidTx") \/ rv = Resp("RequestRouted") ->
            IF check_only THEN Ok("null") ELSE RpcBroadcastTxSyncResponse(tx_hash, FALSE)
      [] rv.k = "Resp" /\ rv.v = "InvalidTx" -> ServerErrorFromInvalidTx(rv.c)
      [] rv = Resp("DoesNotTrackShard") -> does_not_track_shard_err
      [] OTHER -> ServerError("InternalError", "-")

\* The match on send_tx(tx, check_only) in send_or_check_tx
send_or_check_tx_match(rv, check_only, tx_hash) ==
    CASE rv.k = "ServerError" -> rv
      [] rv = Resp("ValidTx") ->
            IF check_only THEN Ok("null") ELSE RpcBroadcastTxSyncResponse(tx_hash, FALSE)
      [] rv = Resp("RequestRouted") ->
            IF check_only THEN does_not_track_shard_err
            ELSE RpcBroadcastTxSyncResponse(tx_hash, TRUE)
      [] rv.k = "Resp" /\ rv.v = "InvalidTx" -> ServerErrorFromInvalidTx(rv.c)
      [] rv = Resp("DoesNotTrackShard") -> does_not_track_shard_err
      [] OTHER -> ServerError("InternalError", "-")

SendOrCheckAfterSend ==
    /\ Returned("send_or_check_tx", "send")
    /\ Finish(send_or_check_tx_match(ret, Top.flag, get_hash(parse_tx(req.params).v)))

\* ------------------------------------------------------------ the deadlines

\* The innermost timeout whose deadline has elapsed
Expired == CHOOSE i \in 1..Len(stack) :
               /\ stack[i].dl # NoDeadline /\ stack[i].dl <= now
               /\ \A j \in (i + 1)..Len(stack) : ~(stack[j].dl # NoDeadline /\ stack[j].dl <= now)

\* The map_err of the three timeouts: what each function returns on Elapsed
elapsed_err(fn) ==
    CASE fn = "tx_exists" -> ServerError("Timeout", "-")
      [] fn = "tx_status_fetch" -> TxStatusErr("TimeoutError", "-")
      [] OTHER -> timeout_err

\* A timeout whose map_err does not touch RPC_TIMEOUT_TOTAL
TimeoutFire_uncounted ==
    /\ Active /\ wait # "none"
    /\ Elapsed(stack, now)
    /\ doomed \/ ~(wait = "sleep" /\ now >= wake)
    /\ Return(SubSeq(stack, 1, Expired - 1), elapsed_err(stack[Expired].fn))
    /\ timeouts' = timeouts
    /\ viewSeen' = IF wait = "view" THEN viewSeen \cup {Pending} ELSE viewSeen
    /\ got' = Nil
    /\ failed' = failed
    /\ late' = 0
    /\ sendTrace' = NoTrace
    /\ UNCHANGED <<viewQueries, clientSent, submits, otherSent>>
    /\ ReqUnchanged

\* tokio's Timeout: the wrapped future is pending and the deadline has elapsed.
\* The future (every frame above the timeout) is dropped, RPC_TIMEOUT_TOTAL is
\* incremented and the function returns its timeout error.
TimeoutFire ==
    /\ Active /\ wait # "none"
    /\ Elapsed(stack, now)
    /\ doomed \/ ~(wait = "sleep" /\ now >= wake)
    /\ Return(SubSeq(stack, 1, Expired - 1), elapsed_err(stack[Expired].fn))
    /\ timeouts' = timeouts + 1
    /\ viewSeen' = IF wait = "view" THEN viewSeen \cup {Pending} ELSE viewSeen
    /\ got' = Nil
    /\ failed' = failed
    /\ late' = 0
    /\ sendTrace' = NoTrace
    /\ UNCHANGED <<viewQueries, clientSent, submits, otherSent>>
    /\ ReqUnchanged

\* The task is runnable: a timer it waits for has fired
Runnable == Elapsed(stack, now) \/ (wait = "sleep" /\ now >= wake)
TimerAhead ==
    \/ wait = "sleep" /\ wake > now
    \/ \E i \in 1..Len(stack) : stack[i].dl > now

\* Time passes while the task is pending; a runnable task is polled within MaxLag ticks
Tick ==
    /\ Active /\ wait # "none" /\ ~doomed
    /\ IF Runnable THEN lag < MaxLag ELSE TimerAhead
    /\ now' = now + 1
    /\ lag' = IF Runnable THEN lag + 1 ELSE 0
    /\ UNCHANGED <<polling_config, cur, other, harness, req, stack, wait, wake, doomed, ret, result, prev,
                   viewQueries, clientSent, viewSeen, got, failed, timeouts, late, sendTrace,
                   envelope, counters, submits, otherSent>>

\* ---------------------------------------------------------- process_request

NoPrev == [tx |-> "-", outcome |-> "-"]

\* The params each method parses: a transaction for the submit methods, either
\* form of TransactionInfo for the status methods
ParamsOf(method) ==
    IF method \in {"tx", "EXPERIMENTAL_tx_status"} THEN TransactionInfos
    ELSE {i \in TransactionInfos : i.kind = "Transaction"}

\* The methods that take an encoded transaction, and those that take either form
SubmitMethods ==
    {"broadcast_tx_async", "broadcast_tx_commit", "EXPERIMENTAL_broadcast_tx_sync",
     "EXPERIMENTAL_check_tx"}
StatusMethods == {"tx", "EXPERIMENTAL_tx_status"}

\* The read-only methods and the handler each is dispatched to
ReadHandlerOf(method) ==
    CASE method = "EXPERIMENTAL_receipt" -> "receipt"
      [] method = "EXPERIMENTAL_protocol_config" -> "protocol_config"
      [] method = "EXPERIMENTAL_validators_ordered" -> "validators_ordered"
      [] method = "EXPERIMENTAL_changes" -> "changes_in_block_by_type"
      [] method = "EXPERIMENTAL_changes_in_block" -> "changes_in_block"
      [] method \in {"light_client_proof", "EXPERIMENTAL_light_client_proof"} ->
            "light_client_execution_outcome_proof"
      [] method = "EXPERIMENTAL_genesis_config" -> "genesis_config"
      [] OTHER -> method
\* The methods whose arm in process_request leaves with `?` on an error
DirectMethods == {"block", "chunk", "EXPERIMENTAL_receipt", "query", "EXPERIMENTAL_protocol_config"}
\* The methods whose handler is one send wrapped in jsonify
JsonifyMethods ==
    {"gas_price", "validators", "EXPERIMENTAL_validators_ordered", "next_light_client_block"}
\* The methods whose handler sends a second request built from the first reply
TwoStepMethods ==
    {"EXPERIMENTAL_changes", "EXPERIMENTAL_changes_in_block", "light_client_proof",
     "EXPERIMENTAL_light_client_proof"}
ReadMethods ==
    DirectMethods \cup JsonifyMethods \cup TwoStepMethods \cup {"EXPERIMENTAL_genesis_config"}
DirectHandlers == {ReadHandlerOf(m) : m \in DirectMethods}
JsonifyHandlers == {ReadHandlerOf(m) : m \in JsonifyMethods}
TwoStepHandlers == {ReadHandlerOf(m) : m \in TwoStepMethods}

\* A dispatch whose catch-all arm is the health handler
HandlerOf_default_health(method) ==
    CASE method = "broadcast_tx_async" -> "send_tx_async"
      [] method = "broadcast_tx_commit" -> "send_tx_commit"
      [] method \in {"EXPERIMENTAL_broadcast_tx_sync", "EXPERIMENTAL_check_tx"} -> "send_or_check_tx"
      [] method \in StatusMethods -> "tx_status_common"
      [] method \in {"health", "status", "network_info"} -> method
      [] method \in ReadMethods -> ReadHandlerOf(method)
      [] OTHER -> "health"

\* The handler process_request's match dispatches the method to
HandlerOf(method) ==
    CASE method = "broadcast_tx_async" -> "send_tx_async"
      [] method = "broadcast_tx_commit" -> "send_tx_commit"
      [] method \in {"EXPERIMENTAL_broadcast_tx_sync", "EXPERIMENTAL_check_tx"} -> "send_or_check_tx"
      [] method \in StatusMethods -> "tx_status_common"
      [] method \in {"health", "status", "network_info"} -> method
      [] method \in ReadMethods -> ReadHandlerOf(method)
      [] OTHER -> "method_not_found"

\* A dispatch that calls send_or_check_tx with check_only = false for check_tx
FlagOf_check_tx_ingests(method) == method \in {"EXPERIMENTAL_tx_status"}

\* A dispatch that calls tx_status_common with fetch_receipt = false for EXPERIMENTAL_tx_status
FlagOf_no_receipt_detail(method) == method \in {"EXPERIMENTAL_check_tx"}

\* The second argument the dispatch passes: fetch_receipt or check_only
FlagOf(method) == method \in {"EXPERIMENTAL_tx_status", "EXPERIMENTAL_check_tx"}

\* What the handler of method makes of params: the TransactionInfo it works on
InfoOf(method, params) ==
    CASE method \in StatusMethods /\ is_ok(tx_status_request(params)) -> tx_status_request(params).v
      [] method \in SubmitMethods /\ is_ok(parse_tx(params)) -> Transaction(parse_tx(params).v)
      [] OTHER -> NoInfo

\* The params a client puts a TransactionInfo in
params_of(info) ==
    IF info.kind = "Transaction" THEN StringParam(encode_tx(info.tx))
    ELSE PairParam(info.hash, info.account_id)

\* process is given the request (id, method, params), the previous message having
\* been answered; process_request counts it and dispatches on the method
StartMessage(id, method, params) ==
    /\ ~Active
    /\ req' = [msg |-> "Request", id |-> id, method |-> method, params |-> params,
               info |-> InfoOf(method, params)]
    /\ now' = 0
    /\ result' = Nil
    /\ envelope' = Nil
    /\ counters' = [requests |-> <<method>>, errors |-> << >>]
    /\ prev' = IF req.method = "broadcast_tx_commit" /\ result.k = "Ok"
               THEN [tx |-> req.info.tx, outcome |-> result.v]
               ELSE NoPrev
    /\ Return(<<Frame(HandlerOf(method), "start", NoDeadline, FlagOf(method), Nil)>>, Nil)
    /\ viewQueries' = {}
    /\ clientSent' = {}
    /\ submits' = 0
    /\ otherSent' = << >>
    /\ viewSeen' = {}
    /\ got' = Nil
    /\ failed' = FALSE
    /\ timeouts' = 0
    /\ late' = 0
    /\ sendTrace' = NoTrace
    /\ UNCHANGED <<polling_config, cur, other, harness>>

\* A request for one of methods arrives with params the method accepts
Start(methods) ==
    \E method \in methods : \E info \in ParamsOf(method) :
        StartMessage("id1", method, params_of(info))

StartRequest == Start(Methods)

\* A process that hands every message to process_request, here to the health arm
ProcessOther_dispatched ==
    \E msg \in MessageKinds \ {"Request"} : \E id \in Ids :
        /\ ~Active
        /\ req' = [msg |-> msg, id |-> id, method |-> "health", params |-> NoParams, info |-> NoInfo]
        /\ now' = 0
        /\ result' = Nil
        /\ envelope' = Nil
        /\ counters' = [requests |-> <<"health">>, errors |-> << >>]
        /\ prev' = NoPrev
        /\ Return(<<Frame("health", "start", NoDeadline, FALSE, Nil)>>, Nil)
        /\ viewQueries' = {}
        /\ clientSent' = {}
        /\ submits' = 0
        /\ otherSent' = << >>
        /\ viewSeen' = {}
        /\ got' = Nil
        /\ failed' = FALSE
        /\ timeouts' = 0
        /\ late' = 0
        /\ sendTrace' = NoTrace
        /\ UNCHANGED <<polling_config, cur, other, harness>>

\* process is given a message that is not a request: it answers invalid request
ProcessOther ==
    \E msg \in MessageKinds \ {"Request"} : \E id \in Ids :
        /\ ~Active
        /\ req' = [msg |-> msg, id |-> id, method |-> "-", params |-> NoParams, info |-> NoInfo]
        /\ now' = 0
        /\ result' = Nil
        /\ envelope' = Message_error(RpcErr("InvalidRequest", "-"))
        /\ counters' = NoCounters
        /\ prev' = NoPrev
        /\ Return(<< >>, Nil)
        /\ viewQueries' = {}
        /\ clientSent' = {}
        /\ submits' = 0
        /\ otherSent' = << >>
        /\ viewSeen' = {}
        /\ got' = Nil
        /\ failed' = FALSE
        /\ timeouts' = 0
        /\ late' = 0
        /\ sendTrace' = NoTrace
        /\ UNCHANGED <<polling_config, cur, other, harness>>

\* The catch-all arm of process_request's match
MethodNotFound ==
    /\ Returned("method_not_found", "start")
    /\ Finish(RpcErr("MethodNotFound", req.method))

\* A send_tx_async that submits through send_tx and awaits the worker's reply
SendTxAsync_awaits ==
    /\ Returned("send_tx_async", "start")
    /\ IF is_ok(parse_tx(req.params))
         THEN /\ EnterSendTx(SetTop(stack, [Top EXCEPT !.pc = "send"]),
                             Transaction(parse_tx(req.params).v), FALSE)
              /\ HandlerUnchanged
         ELSE Finish(parse_tx(req.params))

\* send_tx_async: parse_tx, then do_send of the transaction, then the hash
SendTxAsync ==
    /\ Returned("send_tx_async", "start")
    /\ IF is_ok(parse_tx(req.params))
         THEN /\ Respond(Ok(get_hash(parse_tx(req.params).v)))
              /\ SendClient(parse_tx(req.params).v, FALSE)
              /\ NoReply
         ELSE Finish(parse_tx(req.params))

\* send_tx_commit up to its first await: parse_tx, then tx_status_fetch(Transaction(tx), false)
CommitStart ==
    /\ Returned("send_tx_commit", "start")
    /\ IF is_ok(parse_tx(req.params))
         THEN /\ EnterFetch(SetTop(stack, [Top EXCEPT !.pc = "fetch"]),
                            Transaction(parse_tx(req.params).v), FALSE)
              /\ HandlerUnchanged
         ELSE Finish(parse_tx(req.params))

\* A tx_status_common that does not look at the account id of a (hash, account) pair
TxStatusCommonStart_unvalidated ==
    /\ Returned("tx_status_common", "start")
    /\ IF is_ok(parse_params(req.params, "Pair"))
         THEN /\ EnterFetch(SetTop(stack, [Top EXCEPT !.pc = "fetch"]),
                            TransactionId(req.params.payload, req.params.account), Top.flag)
              /\ HandlerUnchanged
         ELSE Finish(tx_status_request(req.params))

\* tx_status_common up to its first await: the params parsed, then tx_status_fetch
TxStatusCommonStart ==
    /\ Returned("tx_status_common", "start")
    /\ IF is_ok(tx_status_request(req.params))
         THEN /\ EnterFetch(SetTop(stack, [Top EXCEPT !.pc = "fetch"]),
                            tx_status_request(req.params).v, Top.flag)
              /\ HandlerUnchanged
         ELSE Finish(tx_status_request(req.params))

\* send_or_check_tx up to its first await: parse_tx, then send_tx(tx, check_only)
SendOrCheckStart ==
    /\ Returned("send_or_check_tx", "start")
    /\ IF is_ok(parse_tx(req.params))
         THEN /\ EnterSendTx(SetTop(stack, [Top EXCEPT !.pc = "send"]),
                             Transaction(parse_tx(req.params).v), Top.flag)
              /\ HandlerUnchanged
         ELSE Finish(parse_tx(req.params))

\* ------------------------------------------- health, status, network_info

\* The replies to Status and GetNetworkInfo: Ok(Ok(_)), Ok(Err(_)), Err(MailboxError)
CallOk == V("Reply", "Ok", "-")
CallErr == V("Reply", "Err", "node error")
CallReplies == {CallOk, CallErr} \cup {Mailbox(e) : e \in MailboxErrors}
\* RpcError::server_error::<()>(None)
server_error_none == V("ServerError", "None", "-")

\* The handler fn sends msg to the ingestion worker and awaits the reply
ClientCall(fn, msg) ==
    /\ Returned(fn, "start")
    /\ Suspend(SetTop(stack, [Top EXCEPT !.pc = "send"]), "client", 0)
    /\ otherSent' = Append(otherSent, [to |-> "client", msg |-> msg])
    /\ UNCHANGED <<viewQueries, clientSent, late, submits>>
    /\ HandlerUnchanged

HealthStart == ClientCall("health", "Status { is_health_check: true }")
StatusStart == ClientCall("status", "Status { is_health_check: false }")
NetworkInfoStart == ClientCall("network_info", "GetNetworkInfo")

\* The match in health
health_match(r) ==
    CASE r = CallOk -> Ok("null")
      [] r.k = "Reply" -> RpcErr("-32001", r.c)
      [] OTHER -> server_error_none
\* The match in status
status_match(r) ==
    CASE r = CallOk -> jsonify(Ok("StatusResponse"))
      [] r.k = "Reply" -> RpcErr("-32001", r.c)
      [] OTHER -> server_error_none
\* jsonify of the reply in network_info
network_info_match(r) ==
    CASE r = CallOk -> Ok("NetworkInfoResponse")
      [] r.k = "Reply" -> ServerMessage(r.c, "-")
      [] OTHER -> ServerMessage(r.v, "-")

HealthOnReply ==
    \E r \in CallReplies :
        /\ Replied("health", "send", "client")
        /\ Respond(health_match(r)) /\ NoSend
        /\ viewSeen' = viewSeen /\ got' = r /\ failed' = (failed \/ r.k = "MailboxError")
StatusOnReply ==
    \E r \in CallReplies :
        /\ Replied("status", "send", "client")
        /\ Respond(status_match(r)) /\ NoSend
        /\ viewSeen' = viewSeen /\ got' = r /\ failed' = (failed \/ r.k = "MailboxError")
NetworkInfoOnReply ==
    \E r \in CallReplies :
        /\ Replied("network_info", "send", "client")
        /\ Respond(network_info_match(r)) /\ NoSend
        /\ viewSeen' = viewSeen /\ got' = r /\ failed' = (failed \/ r.k = "MailboxError")

\* ------------------------------------------------ the read-only view proxy

\* Well-formed params of a read-only method
ReadParams == [shape |-> "Object", payload |-> "-", account |-> "-"]
\* Ok(Ok(None)), the reply to GetReceipt for a receipt the node does not have
CallNone == V("Reply", "None", "-")
ReadReplies(fn) == CallReplies \cup (IF fn = "receipt" THEN {CallNone} ELSE {})

\* The message each handler sends to the view worker first
first_message(fn) ==
    CASE fn = "block" -> "GetBlock"
      [] fn = "chunk" -> "GetChunk"
      [] fn = "receipt" -> "GetReceipt"
      [] fn = "query" -> "Query"
      [] fn = "protocol_config" -> "GetProtocolConfig"
      [] fn = "gas_price" -> "GetGasPrice"
      [] fn = "validators" -> "GetValidatorInfo"
      [] fn = "validators_ordered" -> "GetValidatorOrdered"
      [] fn = "next_light_client_block" -> "GetNextLightClientBlock"
      [] fn = "light_client_execution_outcome_proof" -> "GetExecutionOutcome"
      [] OTHER -> "GetBlock"
\* The message the two-step handlers send once the first reply is in
second_message(fn) ==
    CASE fn = "changes_in_block" -> "GetStateChangesInBlock"
      [] fn = "changes_in_block_by_type" -> "GetStateChanges"
      [] OTHER -> "GetBlockProof"

\* The top frame sends msg to the view worker and awaits the reply at pc
ViewCall(pc, msg) ==
    /\ Suspend(SetTop(stack, [Top EXCEPT !.pc = pc]), "view", 0)
    /\ otherSent' = Append(otherSent, [to |-> "view", msg |-> msg])
    /\ UNCHANGED <<viewQueries, clientSent, late, submits>>

\* The block hashes a first reply can hold: block.header.hash of GetBlock's
\* block, outcome_proof.block_hash of GetExecutionOutcome's proof
BlockHashes == {"b1", "b2"}
BlockReply(h) == V("Reply", "Ok", h)
\* The replies to the first request of a two-step handler
FirstReplies == {BlockReply(h) : h \in BlockHashes} \cup (CallReplies \ {CallOk})

\* The top frame sends msg { block_hash, .. } to the view worker and awaits the reply at pc
ViewCallKeyed(pc, msg, block_hash) ==
    /\ Suspend(SetTop(stack, [Top EXCEPT !.pc = pc]), "view", 0)
    /\ otherSent' = Append(otherSent, [to |-> "view", msg |-> msg, block_hash |-> block_hash])
    /\ UNCHANGED <<viewQueries, clientSent, late, submits>>

\* The reply r is taken in this step
Takes(r) == viewSeen' = viewSeen /\ got' = r /\ failed' = (failed \/ r.k = "MailboxError")

\* A `?` in an arm of process_request's match: process_request returns v at
\* once, past the count of errors, and process wraps it with the request's id
ReturnEarly(v) ==
    /\ stack' = << >>
    /\ wait' = "none"
    /\ wake' = 0
    /\ doomed' = FALSE
    /\ lag' = 0
    /\ ret' = Nil
    /\ result' = v
    /\ counters' = counters
    /\ envelope' = Message_response(message_id(req.msg, req.id), v)
    /\ sendTrace' = NoTrace
    /\ UNCHANGED <<now, polling_config, cur, other, harness, req, prev, timeouts>>

\* block, chunk, receipt, query, protocol_config: send(..).await?? and the
\* conversion of the handler's error to RpcError
direct_match(r) ==
    CASE r = CallOk -> Ok("view")
      [] r = CallNone -> ServerMessage("UnknownReceipt", "-")
      [] r.k = "Reply" -> ServerMessage(r.c, "-")
      [] OTHER -> ServerMessage(r.v, "-")
\* jsonify(self.view_client_addr.send(..).await)
jsonify_reply(r) ==
    CASE r = CallOk -> Ok("view")
      [] r.k = "Reply" -> ServerMessage(r.c, "-")
      [] OTHER -> ServerMessage(r.v, "-")
\* What a two-step handler returns when its first request brings no value
first_err(fn, r) ==
    CASE r.k = "Reply" -> ServerMessage(r.c, "-")
      [] fn = "light_client_execution_outcome_proof" -> ServerErrorFromMailbox(r.v)
      [] OTHER -> ServerMessage(r.v, "-")
\* What a two-step handler returns on the reply to its second request
second_match(fn, r) ==
    IF fn = "light_client_execution_outcome_proof" /\ r.k = "MailboxError"
      THEN ServerErrorFromMailbox(r.v)
      ELSE jsonify_reply(r)

\* The arm of a direct method up to the await: the request parsed, one message sent
DirectStart ==
    \E fn \in DirectHandlers :
        /\ Returned(fn, "start")
        /\ IF is_ok(parse_params(req.params, "Object"))
             THEN ViewCall("send", first_message(fn)) /\ HandlerUnchanged
             ELSE ReturnEarly(parse_params(req.params, "Object")) /\ NoSend /\ NoReply
\* The rest of the arm: `?` on the handler's error, the value otherwise
DirectOnReply ==
    \E fn \in DirectHandlers : \E r \in ReadReplies(fn) :
        /\ Replied(fn, "send", "view")
        /\ IF is_ok(direct_match(r)) THEN Respond(direct_match(r))
           ELSE ReturnEarly(direct_match(r))
        /\ NoSend /\ Takes(r)

\* gas_price, validators, validators_ordered, next_light_client_block
JsonifyStart ==
    \E fn \in JsonifyHandlers :
        /\ Returned(fn, "start")
        /\ IF is_ok(parse_params(req.params, "Object"))
             THEN ViewCall("send", first_message(fn)) /\ HandlerUnchanged
             ELSE Finish(parse_params(req.params, "Object"))
\* A jsonify handler that asks again when the view worker answers with an error
JsonifyOnReply_retry ==
    \E fn \in JsonifyHandlers : \E r \in CallReplies :
        /\ Replied(fn, "send", "view")
        /\ IF r = CallErr /\ Len(otherSent) < 3
             THEN /\ ViewCall("send", first_message(fn))
                  /\ UNCHANGED <<now, polling_config, cur, other, harness, req, result, prev, envelope, counters,
                                 timeouts, sendTrace>>
             ELSE Respond(jsonify_reply(r)) /\ NoSend
        /\ Takes(r)

JsonifyOnReply ==
    \E fn \in JsonifyHandlers : \E r \in CallReplies :
        /\ Replied(fn, "send", "view")
        /\ Respond(jsonify_reply(r)) /\ NoSend /\ Takes(r)

\* changes_in_block, changes_in_block_by_type, light_client_execution_outcome_proof
TwoStepStart ==
    \E fn \in TwoStepHandlers :
        /\ Returned(fn, "start")
        /\ IF is_ok(parse_params(req.params, "Object"))
             THEN ViewCall("send", first_message(fn)) /\ HandlerUnchanged
             ELSE Finish(parse_params(req.params, "Object"))
\* A two-step handler that sends its second request whatever the first reply was
TwoStepOnFirst_regardless ==
    \E fn \in TwoStepHandlers : \E r \in FirstReplies :
        /\ Replied(fn, "send", "view")
        /\ ViewCallKeyed("send2", second_message(fn), r.c)
        /\ UNCHANGED <<now, polling_config, cur, other, harness, req, result, prev, envelope, counters,
                       timeouts, sendTrace>>
        /\ Takes(r)

\* The first reply: the second request is sent if it holds a value, for the
\* block hash in that value
TwoStepOnFirst ==
    \E fn \in TwoStepHandlers : \E r \in FirstReplies :
        /\ Replied(fn, "send", "view")
        /\ IF r.k = "Reply" /\ r.v = "Ok"
             THEN /\ ViewCallKeyed("send2", second_message(fn), r.c)
                  /\ UNCHANGED <<now, polling_config, cur, other, harness, req, result, prev, envelope, counters,
                                 timeouts, sendTrace>>
             ELSE Respond(first_err(fn, r)) /\ NoSend
        /\ Takes(r)
TwoStepOnSecond ==
    \E fn \in TwoStepHandlers : \E r \in CallReplies :
        /\ Replied(fn, "send2", "view")
        /\ Respond(second_match(fn, r)) /\ NoSend /\ Takes(r)

\* genesis_config answers from the handler's own copy
GenesisConfig ==
    /\ Returned("genesis_config", "start")
    /\ Finish(Ok("genesis_config"))

\* Every request is served by its own task; the tasks share the handler, which
\* holds the two worker addresses, polling_config and the genesis config, and
\* nothing else.  Context is what one task owns: its request, its call stack,
\* its timers and the clock it reads them against, and the record of what it
\* sent and received.
Context ==
    [now |-> now, req |-> req, stack |-> stack, wait |-> wait, wake |-> wake,
     doomed |-> doomed, lag |-> lag, ret |-> ret, result |-> result, prev |-> prev,
     viewQueries |-> viewQueries, clientSent |-> clientSent, viewSeen |-> viewSeen,
     got |-> got, failed |-> failed, timeouts |-> timeouts, late |-> late,
     sendTrace |-> sendTrace, envelope |-> envelope, counters |-> counters,
     submits |-> submits, otherSent |-> otherSent]

\* A task that has not received a request yet
IdleContext ==
    [now |-> 0, req |-> NoReq, stack |-> << >>, wait |-> "none", wake |-> 0,
     doomed |-> FALSE, lag |-> 0, ret |-> Nil, result |-> Nil, prev |-> NoPrev,
     viewQueries |-> {}, clientSent |-> {}, viewSeen |-> {},
     got |-> Nil, failed |-> FALSE, timeouts |-> 0, late |-> 0,
     sendTrace |-> NoTrace, envelope |-> Nil, counters |-> NoCounters,
     submits |-> 0, otherSent |-> << >>]

\* A reply slot that the two tasks share: the task that is resumed finds the
\* reply and the mailbox failure of the task that was left
Switch_shared_reply ==
    /\ wait # "none" \/ ~Active
    /\ cur' = 3 - cur
    /\ other' = Context
    /\ UNCHANGED harness
    /\ now' = other.now
    /\ req' = other.req
    /\ stack' = other.stack
    /\ wait' = other.wait
    /\ wake' = other.wake
    /\ doomed' = other.doomed
    /\ lag' = other.lag
    /\ ret' = other.ret
    /\ result' = other.result
    /\ prev' = other.prev
    /\ viewQueries' = other.viewQueries
    /\ clientSent' = other.clientSent
    /\ viewSeen' = other.viewSeen
    /\ got' = got
    /\ failed' = failed
    /\ timeouts' = other.timeouts
    /\ late' = other.late
    /\ sendTrace' = other.sendTrace
    /\ envelope' = other.envelope
    /\ counters' = other.counters
    /\ submits' = other.submits
    /\ otherSent' = other.otherSent
    /\ polling_config' = polling_config

\* The executor leaves the running task at an await, or after it has finished,
\* and resumes the other one where it was left
Switch ==
    /\ wait # "none" \/ ~Active
    /\ cur' = 3 - cur
    /\ other' = Context
    /\ UNCHANGED harness
    /\ now' = other.now
    /\ req' = other.req
    /\ stack' = other.stack
    /\ wait' = other.wait
    /\ wake' = other.wake
    /\ doomed' = other.doomed
    /\ lag' = other.lag
    /\ ret' = other.ret
    /\ result' = other.result
    /\ prev' = other.prev
    /\ viewQueries' = other.viewQueries
    /\ clientSent' = other.clientSent
    /\ viewSeen' = other.viewSeen
    /\ got' = other.got
    /\ failed' = other.failed
    /\ timeouts' = other.timeouts
    /\ late' = other.late
    /\ sendTrace' = other.sendTrace
    /\ envelope' = other.envelope
    /\ counters' = other.counters
    /\ submits' = other.submits
    /\ otherSent' = other.otherSent
    /\ polling_config' = polling_config

Init ==
    /\ now = 0
    /\ polling_config = [polling_interval |-> ModelInterval, polling_timeout |-> ModelTimeout]
    /\ req = NoReq
    /\ stack = << >>
    /\ wait = "none"
    /\ wake = 0
    /\ doomed = FALSE
    /\ lag = 0
    /\ ret = Nil
    /\ result = Nil
    /\ prev = NoPrev
    /\ viewQueries = {}
    /\ clientSent = {}
    /\ viewSeen = {}
    /\ got = Nil
    /\ failed = FALSE
    /\ timeouts = 0
    /\ late = 0
    /\ sendTrace = NoTrace
    /\ envelope = Nil
    /\ counters = NoCounters
    /\ submits = 0
    /\ otherSent = << >>
    /\ cur = 1
    /\ other = IdleContext
    /\ nonces = [i \in {} |-> 0]
    /\ accounts_used = {}
    /\ generated = << >>
    /\ sender_is_receiver = FALSE
    /\ use_unique_accounts = FALSE

Next ==
    \/ StartRequest
    \/ CommitStart
    \/ CommitAfterFetch
    \/ CommitAfterSend
    \/ CommitAfterPolling
    \/ TxStatusCommonStart
    \/ TxStatusCommonAfterFetch
    \/ SendOrCheckStart
    \/ SendOrCheckAfterSend
    \/ PollingAfterFetch
    \/ PollingSleepDone
    \/ FetchOnReply
    \/ FetchAfterResubmit
    \/ FetchSleepDone
    \/ SendTxOnReply
    \/ SendTxAfterExists
    \/ ExistsOnReply
    \/ ExistsSleepDone
    \/ TimeoutFire
    \/ Tick

Spec == Init /\ [][Next]_vars

\* The status methods alone, under pollTimeout = 200ms and pollInterval = 50ms
\* with a clock tick of 10ms
StartStatusRequest == Start(StatusMethods)

Init200 ==
    /\ now = 0
    /\ polling_config = [polling_interval |-> 5, polling_timeout |-> 20]
    /\ req = NoReq
    /\ stack = << >>
    /\ wait = "none"
    /\ wake = 0
    /\ doomed = FALSE
    /\ lag = 0
    /\ ret = Nil
    /\ result = Nil
    /\ prev = NoPrev
    /\ viewQueries = {}
    /\ clientSent = {}
    /\ viewSeen = {}
    /\ got = Nil
    /\ failed = FALSE
    /\ timeouts = 0
    /\ late = 0
    /\ sendTrace = NoTrace
    /\ envelope = Nil
    /\ counters = NoCounters
    /\ submits = 0
    /\ otherSent = << >>
    /\ cur = 1
    /\ other = IdleContext
    /\ nonces = [i \in {} |-> 0]
    /\ accounts_used = {}
    /\ generated = << >>
    /\ sender_is_receiver = FALSE
    /\ use_unique_accounts = FALSE

Next200 ==
    \/ StartStatusRequest
    \/ TxStatusCommonStart
    \/ TxStatusCommonAfterFetch
    \/ FetchOnReply
    \/ FetchAfterResubmit
    \/ FetchSleepDone
    \/ SendTxOnReply
    \/ SendTxAfterExists
    \/ ExistsOnReply
    \/ ExistsSleepDone
    \/ TimeoutFire
    \/ Tick

Spec200 == Init200 /\ [][Next200]_vars

\* The runtime polls a woken task and fires an elapsed timer
FairSpec200 == Spec200 /\ WF_vars(Next200)

\* broadcast_tx_commit alone, every message answered and every woken task polled
StartCommitRequest == Start({"broadcast_tx_commit"})

NextCommit ==
    \/ StartCommitRequest
    \/ CommitStart
    \/ CommitAfterFetch
    \/ CommitAfterSend
    \/ CommitAfterPolling
    \/ PollingAfterFetch
    \/ PollingSleepDone
    \/ FetchOnReply
    \/ FetchAfterResubmit
    \/ FetchSleepDone
    \/ SendTxOnReply
    \/ SendTxAfterExists
    \/ ExistsOnReply
    \/ ExistsSleepDone
    \/ TimeoutFire
    \/ Tick

SpecCommit == Init /\ [][NextCommit]_vars

\* The workers answer every message and the runtime polls a woken task and
\* fires an elapsed timer
FairSpecCommit == SpecCommit /\ WF_vars(NextCommit)

\* The whole of process: every kind of message, the methods above and one not
\* in the dispatch table, params of every shape, two request ids
RpcMethods ==
    SubmitMethods \cup StatusMethods \cup ReadMethods
    \cup {"health", "status", "network_info", "not_a_method"}
RpcParams(method) ==
    IF method \in SubmitMethods \cup StatusMethods
      THEN {NoParams, OtherParams, StringParam("not base64!"), StringParam("Z2FyYmFnZQ=="),
            StringParam(encode_tx("t1")), PairParam("h1", "alice"),
            PairParam("h1", "Not An Account")}
    ELSE IF method \in ReadMethods \ {"EXPERIMENTAL_genesis_config"}
      THEN {NoParams, ReadParams}
      ELSE {NoParams}

StartRpcRequest ==
    \E id \in Ids : \E method \in RpcMethods : \E params \in RpcParams(method) :
        StartMessage(id, method, params)

NextRpc ==
    \/ StartRpcRequest
    \/ ProcessOther
    \/ MethodNotFound
    \/ SendTxAsync
    \/ HealthStart
    \/ HealthOnReply
    \/ StatusStart
    \/ StatusOnReply
    \/ NetworkInfoStart
    \/ NetworkInfoOnReply
    \/ DirectStart
    \/ DirectOnReply
    \/ JsonifyStart
    \/ JsonifyOnReply
    \/ TwoStepStart
    \/ TwoStepOnFirst
    \/ TwoStepOnSecond
    \/ GenesisConfig
    \/ CommitStart
    \/ CommitAfterFetch
    \/ CommitAfterSend
    \/ CommitAfterPolling
    \/ TxStatusCommonStart
    \/ TxStatusCommonAfterFetch
    \/ SendOrCheckStart
    \/ SendOrCheckAfterSend
    \/ PollingAfterFetch
    \/ PollingSleepDone
    \/ FetchOnReply
    \/ FetchAfterResubmit
    \/ FetchSleepDone
    \/ SendTxOnReply
    \/ SendTxAfterExists
    \/ ExistsOnReply
    \/ ExistsSleepDone
    \/ TimeoutFire
    \/ Tick

SpecRpc == Init /\ [][NextRpc]_vars

\* Two requests in flight at once: a health probe or a transaction check in
\* each of two tasks, interleaved at every await
TwoTaskMethods == {"health", "EXPERIMENTAL_check_tx"}

StartTaskRequest ==
    \E method \in TwoTaskMethods :
        StartMessage(IF cur = 1 THEN "id1" ELSE "id2", method,
                     IF method = "health" THEN NoParams ELSE StringParam(encode_tx("t1")))

NextTwo ==
    \/ StartTaskRequest
    \/ Switch
    \/ HealthStart
    \/ HealthOnReply
    \/ SendOrCheckStart
    \/ SendOrCheckAfterSend
    \/ SendTxOnReply
    \/ SendTxAfterExists
    \/ ExistsOnReply
    \/ ExistsSleepDone
    \/ TimeoutFire
    \/ Tick

SpecTwo == Init /\ [][NextTwo]_vars

\* ------------------------------------------- runtime-params-estimator harness

\* config.active_accounts, and the number of calls of the generator in one
\* measure_actions
ActiveAccounts == 3
MaxTransactions == 4

\* fn get_account_id: format!("near_{}_{}", account_index, account_index)
get_account_id(account_index) == <<"near", account_index, account_index>>

\* rand::thread_rng().gen::<usize>() % config.active_accounts
AccountIndices == 0..(ActiveAccounts - 1)

\* The values the first loop of the generator can break with: a draw that is
\* rejected is drawn again
SignerChoices == {x \in AccountIndices : ~(use_unique_accounts /\ x \in accounts_used)}
\* The values the second loop can break with
ReceiverChoices(account_idx) ==
    IF sender_is_receiver THEN {account_idx}
    ELSE {x \in AccountIndices :
            ~((use_unique_accounts /\ x \in accounts_used) \/ x = account_idx)}

\* A generator that hands every transaction the nonce 1
next_nonce_constant(account_idx) == 1

\* *nonces.entry(account_idx).and_modify(|x| *x += 1).or_insert(1)
next_nonce(account_idx) ==
    IF account_idx \in DOMAIN nonces THEN nonces[account_idx] + 1 ELSE 1

\* One call of the closure f of measure_actions: the two account indices are
\* drawn, recorded as used, the signer's nonce advanced and the transaction signed
GenerateTransaction ==
    \E account_idx \in SignerChoices : \E other_account_idx \in ReceiverChoices(account_idx) :
        /\ Len(generated) < MaxTransactions
        /\ accounts_used' = accounts_used \cup {account_idx, other_account_idx}
        /\ nonces' = [i \in DOMAIN nonces \cup {account_idx} |->
                         IF i = account_idx THEN next_nonce(account_idx) ELSE nonces[i]]
        /\ generated' = Append(generated,
                               [nonce |-> next_nonce(account_idx),
                                signer_id |-> get_account_id(account_idx),
                                receiver_id |-> get_account_id(other_account_idx)])
        /\ UNCHANGED <<sender_is_receiver, use_unique_accounts>>
        /\ UNCHANGED taskVars

\* measure_actions is called: nonces and accounts_used are empty
InitBench ==
    /\ now = 0
    /\ polling_config = [polling_interval |-> ModelInterval, polling_timeout |-> ModelTimeout]
    /\ req = NoReq
    /\ stack = << >>
    /\ wait = "none"
    /\ wake = 0
    /\ doomed = FALSE
    /\ lag = 0
    /\ ret = Nil
    /\ result = Nil
    /\ prev = NoPrev
    /\ viewQueries = {}
    /\ clientSent = {}
    /\ viewSeen = {}
    /\ got = Nil
    /\ failed = FALSE
    /\ timeouts = 0
    /\ late = 0
    /\ sendTrace = NoTrace
    /\ envelope = Nil
    /\ counters = NoCounters
    /\ submits = 0
    /\ otherSent = << >>
    /\ cur = 1
    /\ other = IdleContext
    /\ nonces = [i \in {} |-> 0]
    /\ accounts_used = {}
    /\ generated = << >>
    /\ sender_is_receiver \in BOOLEAN
    /\ use_unique_accounts \in BOOLEAN

NextBench == GenerateTransaction

SpecBench == InitBench /\ [][NextBench]_vars

\* ------------------------------------------------------------------ claims

Done == ~Active /\ result # Nil
Commit == req.method = "broadcast_tx_commit"
InvalidNonceError == ServerErrorFromInvalidTx("InvalidNonce")
\* The status query of the request's transaction or reference
QueryOf(info, fetch_receipt) ==
    [tx_hash |-> info.hash, signer_account_id |-> info.account_id, fetch_receipt |-> fetch_receipt]
\* The request is a second broadcast_tx_commit of the transaction whose first
\* broadcast_tx_commit returned the outcome prev.outcome
SecondCommit == Commit /\ Done /\ prev # NoPrev /\ prev.tx = req.info.tx

\* C1: a second broadcast_tx_commit(T), after a first one returned outcome O,
\* returns O when every status query it sent was answered with O; and when the
\* view worker reported nothing but O (a query may have gone unanswered), it
\* never returns TxExecutionError(InvalidNonce), whatever the ingestion worker
\* answered.
C1_IdempotentCommit ==
    /\ (SecondCommit /\ viewSeen \subseteq {ViewFinal(prev.outcome)})
          => result = Ok(prev.outcome)
    /\ (SecondCommit /\ viewSeen \subseteq {ViewFinal(prev.outcome), Pending})
          => result # InvalidNonceError

\* The second call retransmitted the transaction and still returned O
C1_Witness ==
    /\ SecondCommit
    /\ viewSeen = {ViewFinal(prev.outcome), Pending}
    /\ [transaction |-> req.info.tx, check_only |-> FALSE] \in clientSent
    /\ result = Ok(prev.outcome)

\* C2: send_tx runs the existence check (for the transaction's hash and signer)
\* exactly when the ingestion worker replied InvalidTx(InvalidNonce), before it
\* returns; it then returns ValidTx exactly when the check returned true, and
\* returns the InvalidNonce rejection only when the check returned false.
C2_TwoStepNonce ==
    sendTrace # NoTrace =>
        /\ (sendTrace.exists # Nil) <=> (sendTrace.resp = InvalidTx("InvalidNonce"))
        /\ sendTrace.exists # Nil =>
              /\ QueryOf([hash |-> get_hash(req.info.tx), account_id |-> signer_id(req.info.tx)], FALSE)
                    \in viewQueries
              /\ (sendTrace.out = Resp("ValidTx")) <=> (sendTrace.exists = Ok("true"))
        /\ sendTrace.out = InvalidTx("InvalidNonce") => sendTrace.exists = Ok("false")
        /\ sendTrace.exists = Nil /\ sendTrace.resp.k = "Resp" => sendTrace.out = sendTrace.resp

\* The duplicate was found by the existence check and reported as accepted
C2_Witness ==
    /\ sendTrace.resp = InvalidTx("InvalidNonce")
    /\ sendTrace.exists = Ok("true")
    /\ sendTrace.out = Resp("ValidTx")

\* The request is in tx_polling, or tx_polling just returned to send_tx_commit
InPoller == Active /\ stack[1].fn = "send_tx_commit" /\ stack[1].pc = "poll"

InResolve == Len(stack) > 1 /\ stack[1].fn = "tx_status_common" /\ stack[2].fn = "tx_status_fetch"
\* resolve has just returned to tx_status_common, every reply of the view worker
\* having been not-yet-known (a query still unanswered at the end counts as such)
ResolvedPending == Returned("tx_status_common", "fetch") /\ viewSeen \subseteq {Pending}

\* C4: with polling_timeout 200 ms and polling_interval 50 ms (one tick of the
\* clock is 10 ms), a resolve whose status queries are all answered
\* not-yet-known returns TimeoutError, counted once, between 200 ms and 260 ms
\* after its start (so never before 150 ms); it never returns a success; while
\* it runs no more than 200 ms plus the scheduling lag have passed; and every
\* resolve returns.
C4_PollBound ==
    /\ [](ResolvedPending =>
            /\ ret = TxStatusErr("TimeoutError", "-")
            /\ timeouts = 1
            /\ now >= 20 /\ now <= 26)
    /\ [](InResolve => now <= 20 + MaxLag)
    /\ (InResolve ~> ~InResolve)

\* resolve timed out after several not-yet-known replies
C4_Witness ==
    /\ ResolvedPending
    /\ ret = TxStatusErr("TimeoutError", "-")
    /\ Cardinality(viewQueries) = 1 /\ got = Nil /\ now = 20

\* The deadline of a polling session of the request has elapsed
DeadlineElapsed == Elapsed(stack, now)

\* The claim C5 as worded: once a session's deadline has elapsed no message is
\* sent to either worker, no reply is taken, and the task's next step is the
\* timeout.
C5_Original ==
    [][DeadlineElapsed =>
          /\ late' <= late
          /\ got' = Nil
          /\ stack' # stack => timeouts' = timeouts + 1]_vars

\* C5: once a session's deadline has elapsed the task takes at most the one
\* reply or finished sleep that is ready when it is polled, so at most one
\* message is sent to a worker after the deadline; at the await that follows,
\* the operation returns its timeout error, counted once, without sending
\* anything, and the reply to a message sent after the deadline is never
\* taken.  No session runs longer than the polling timeout plus the
\* scheduling lag.
C5_DeadlineStops ==
    /\ [](late <= 1)
    /\ [](\A i \in 1..Len(stack) :
             stack[i].dl # NoDeadline => now <= stack[i].dl + MaxLag)
    /\ [](late = 1 /\ wait # "none" => doomed)
    /\ [][doomed =>
            /\ timeouts' = timeouts + 1
            /\ got' = Nil
            /\ UNCHANGED <<viewQueries, clientSent>>
            /\ Len(stack') < Len(stack)
            /\ ret' \in {ServerError("Timeout", "-"), TxStatusErr("TimeoutError", "-")}]_vars

\* A status query was sent after the deadline and the task went pending on it
C5_Witness == late = 1 /\ doomed /\ wait = "view"

\* The frames of the polling loops that query the view worker
IsSession(f) == f.fn \in {"tx_exists", "tx_status_fetch"}
RECURSIVE SumOut(_)
\* The status queries of the request's live sessions that are outstanding
SumOut(stk) == IF stk = << >> THEN 0 ELSE stk[Len(stk)].out + SumOut(SubSeq(stk, 1, Len(stk) - 1))
\* The top session sends its next status query in this step
NextQuery ==
    /\ Active /\ Len(stack') = Len(stack)
    /\ IsSession(Top) /\ stack'[Len(stack)].out > Top.out
\* The top session takes the reply to its status query and goes to sleep
ReplyThenSleep ==
    /\ Active /\ Len(stack') = Len(stack)
    /\ IsSession(Top) /\ Top.pc = "query" /\ stack'[Len(stack)].pc = "sleep"

\* C6: the status queries of a request's sessions are strictly sequential: at
\* most one is outstanding at any moment, a session has one outstanding exactly
\* while it awaits the reply, it goes to sleep for the polling interval only on
\* taking that reply, and it sends its next query only when that sleep has
\* finished.
C6_SequentialPolls ==
    /\ [](SumOut(stack) <= 1)
    /\ [](\A i \in 1..Len(stack) : IsSession(stack[i]) =>
             /\ stack[i].out = (IF stack[i].pc = "query" THEN 1 ELSE 0)
             /\ stack[i].out = 1 => i = Len(stack) /\ wait = "view")
    /\ [][ReplyThenSleep =>
            /\ wait = "view" /\ got' # Nil
            /\ wait' = "sleep" /\ wake' = now + Interval]_vars
    /\ [][NextQuery =>
            /\ Top.pc = "sleep" /\ Top.out = 0
            /\ wait = "sleep" /\ now >= wake
            /\ wait' = "view"]_vars

\* A second status query of a resolve is outstanding, the first having been
\* answered not-yet-known
C6_Witness ==
    /\ req.method = "tx" /\ At("tx_status_fetch", "query")
    /\ Top.out = 1 /\ wait = "view" /\ viewSeen = {Pending} /\ now >= Interval

\* The message by which resolve resubmits the request's transaction
Resubmission == [transaction |-> req.info.tx, check_only |-> TRUE]
\* resolve takes an unknown-transaction reply in this step
UnknownReply ==
    /\ At("tx_status_fetch", "query") /\ wait = "view"
    /\ got' = ViewErr("MissingTransaction")
\* resolve has returned to the handler that called it
ResolveReturned ==
    Returned("tx_status_common", "fetch") \/ Returned("send_tx_commit", "fetch")

\* C7: a resolve call sends the ingestion worker at most one message; on an
\* unknown-transaction reply to a request carrying the full transaction it
\* sends exactly one, carrying that transaction (check_only), and awaits the
\* outcome of that submission before it returns; it never returns
\* unknown-transaction or invalid for such a request without having sent it;
\* and for a request carrying a hash and account no message goes to the
\* ingestion worker at all.
C7_ResubmitOnce ==
    /\ [](\A i \in 1..Len(stack) : stack[i].fn = "tx_status_fetch" =>
             /\ stack[i].m = (IF stack[i].pc = "resubmit" THEN 1 ELSE 0)
             /\ stack[i].m = 1 =>
                   /\ req.info.kind = "Transaction"
                   /\ Resubmission \in clientSent)
    /\ [](req.info.kind = "TransactionId" => clientSent = {})
    /\ [](ResolveReturned /\ req.info.kind = "Transaction"
             /\ ret.k = "TxStatusError" /\ ret.v \in {"MissingTransaction", "InvalidTx"}
           => Resubmission \in clientSent)
    /\ [][UnknownReply /\ req.info.kind = "Transaction" =>
            /\ Len(stack') = Len(stack) + 1
            /\ stack'[Len(stack)].m = Top.m + 1
            /\ stack'[Len(stack')].fn = "send_tx"
            /\ wait' = "client"
            /\ Resubmission \in clientSent']_vars
    /\ [][UnknownReply /\ req.info.kind = "TransactionId" =>
            /\ stack' = Base
            /\ ret' = TxStatusErr("MissingTransaction", "-")
            /\ clientSent' = {}]_vars

\* The one resubmission of a status request has been answered and resolve is
\* about to return
C7_Witness ==
    /\ req.method = "tx" /\ Returned("tx_status_fetch", "resubmit")
    /\ Top.m = 1 /\ clientSent = {Resubmission}

\* The resubmission of resolve has returned rv to it
ResubmitReturned == Returned("tx_status_fetch", "resubmit")
ReportsInvalid(rv) == rv.k = "Resp" /\ rv.v = "InvalidTx"

\* The claim C8 as worded: when the resubmission was answered and did not
\* report the transaction invalid, resolve stays in its polling loop.
C8_Original ==
    [][ResubmitReturned /\ ret.k = "Resp" /\ ~ReportsInvalid(ret) =>
          /\ Len(stack') >= Len(stack)
          /\ stack'[Len(stack)].fn = "tx_status_fetch"]_vars

\* C8: in resolve an unknown-transaction reply always ends the polling loop:
\* once it is taken resolve sends no further status query and sleeps no more;
\* when the resubmission returns, resolve returns at once, with the invalidity
\* error if the resubmission reported the transaction invalid and with
\* unknown-transaction otherwise.  Only post-submit polling goes on after
\* unknown-transaction: it sleeps and calls resolve again.
C8_UnknownEndsResolve ==
    /\ [][\A i \in 1..Len(stack) :
             stack[i].fn = "tx_status_fetch" /\ stack[i].pc = "resubmit" =>
                 Len(stack') < i \/ stack'[i] = stack[i]]_vars
    /\ [][ResubmitReturned =>
            /\ stack' = Base
            /\ wait' = "none"
            /\ ret' = (IF ReportsInvalid(ret) THEN TxStatusErr("InvalidTx", ret.c)
                       ELSE TxStatusErr("MissingTransaction", "-"))
            /\ UNCHANGED <<viewQueries, clientSent>>]_vars
    /\ [][Returned("tx_polling", "fetch") /\ ret = TxStatusErr("MissingTransaction", "-") =>
            /\ stack' = SetTop(stack, [Top EXCEPT !.pc = "sleep"])
            /\ wait' = "sleep" /\ wake' = now + Interval]_vars

\* A status request for a full transaction ended with unknown-transaction after
\* its resubmission
C8_Witness ==
    /\ req.method = "tx" /\ req.info.kind = "Transaction"
    /\ Returned("tx_status_common", "fetch")
    /\ ret = TxStatusErr("MissingTransaction", "-")
    /\ clientSent = {Resubmission}

\* C9: a polling loop sleeps for another attempt only after a reply that is
\* unknown-transaction or not-yet-known; after any other error reply it does
\* not.
C9_RetryPolicy ==
    \A i \in 1..Len(stack) :
        IsSession(stack[i]) /\ stack[i].pc = "sleep" =>
            got \in {ViewNone, ViewErr("MissingTransaction")}

\* A session takes a communication failure as the reply to its status query
MailboxFailure ==
    /\ Active /\ IsSession(Top) /\ Top.pc = "query" /\ wait = "view"
    /\ got'.k = "MailboxError"
\* The internal error of the function fn
internal_error(fn) ==
    IF fn = "tx_exists" THEN ServerError("InternalError", "-")
    ELSE TxStatusErr("InternalError", "-")

\* C10: when the view worker's mailbox fails (closed or timed out) on a status
\* query of resolve or of the existence check, the session ends in that step
\* with the internal error: it does not sleep, sends no status query and no
\* other message, and is not counted as a timeout.
C10_MailboxFailureEnds ==
    [][MailboxFailure =>
          /\ stack' = Base
          /\ wait' = "none"
          /\ ret' = internal_error(Top.fn)
          /\ UNCHANGED <<viewQueries, clientSent, late, timeouts>>]_vars

\* The existence check ended with the internal error on a closed mailbox
C10_Witness ==
    /\ Returned("send_tx", "exists")
    /\ got = Mailbox("Closed")
    /\ ret = ServerError("InternalError", "-")

\* The task takes a communication failure as the reply to the message it awaits
TakesMailboxError == Active /\ wait \in {"view", "client"} /\ got'.k = "MailboxError"
\* What the function or the request ends with in this step
Outcome == IF stack' = << >> THEN result' ELSE ret'

RejectedInvalid ==
    /\ Returned("send_or_check_tx", "send") \/ Returned("send_tx_commit", "send")
    /\ ret.k = "Resp" /\ ret.v = "InvalidTx"

\* The handler has a failure in hand: a converted mailbox failure or a rejection
FailureInHand ==
    /\ Active /\ Len(stack) = 1 /\ wait = "none"
    /\ \/ ret.k \in {"ServerError", "TxStatusError"}
       \/ ret.k = "Resp" /\ ret.v = "InvalidTx"

\* C12: the conversion of backend failures is total and keeps the kinds apart:
\* a closed mailbox becomes Closed, a timed-out mailbox Timeout, a rejection
\* with cause e becomes TxExecutionError carrying e, each failure has a server
\* error kind as its image, and a request that has a failure in hand never
\* answers with a success.
C12_TotalErrorMapping ==
    /\ [](\A e \in MailboxErrors :
            ServerErrorFromMailbox(e) = ServerError(e, "-"))
    /\ [](\A e \in InvalidTxErrors :
            ServerErrorFromInvalidTx(e) = ServerError("TxExecutionError", e))
    /\ [][TakesMailboxError /\ Top.fn = "send_tx"
            => ret'.k = "ServerError" /\ ret'.v = got'.v /\ ret'.v \in MailboxErrors]_vars
    /\ [][RejectedInvalid
            => result' = ServerError("TxExecutionError", ret.c) /\ ret.c \in InvalidTxErrors]_vars
    /\ [][FailureInHand /\ stack' = << >> => result'.k # "Ok"]_vars

\* A request ended with the execution error that carries the rejection's cause
C12_Witness ==
    /\ Done
    /\ \E e \in InvalidTxErrors \ {"InvalidNonce"} :
          result = ServerError("TxExecutionError", e)

\* The request is a broadcast_tx_async
Async == req.msg = "Request" /\ req.method = "broadcast_tx_async"
\* The request's params decode to a transaction
DecodesTx == is_ok(parse_tx(req.params))

\* C13: broadcast_tx_async never waits for a reply; when its params decode to a
\* transaction it answers with the transaction's hash, having sent exactly one
\* message, the transaction with check_only = false to the ingestion worker,
\* and nothing to the view worker: no existence check comes before or after.
C13_AsyncFireAndForget ==
    Async =>
        /\ wait = "none" /\ got = Nil
        /\ viewQueries = {} /\ otherSent = << >>
        /\ Done /\ DecodesTx =>
              /\ result = Ok(get_hash(parse_tx(req.params).v))
              /\ envelope.result = result
              /\ clientSent = {[transaction |-> parse_tx(req.params).v, check_only |-> FALSE]}
              /\ submits = 1

\* A broadcast_tx_async of a transaction was answered
C13_Witness == Async /\ Done /\ DecodesTx /\ submits = 1

\* A finished request of one of the submit methods
SubmitDone == Done /\ req.msg = "Request" /\ req.method \in SubmitMethods
\* The payload is one string that is not base64
BadBase64 ==
    /\ req.params.shape = "String"
    /\ ~is_ok(from_base64_or_parse_err(req.params.payload))
\* The payload is base64 whose bytes are not a signed transaction
Undeserializable ==
    /\ req.params.shape = "String"
    /\ is_ok(from_base64_or_parse_err(req.params.payload))
    /\ ~is_ok(try_from_slice(from_base64_or_parse_err(req.params.payload).v))

\* The claim C14 as worded: for every submit method a payload that is not
\* base64, and one that is base64 but not a transaction, both give the
\* invalid-params error.
C14_Original ==
    SubmitDone /\ (BadBase64 \/ Undeserializable) =>
        result.k = "RpcError" /\ result.v = "InvalidParams"

\* C14: for every submit method a payload that is not base64 gives the parse
\* error, and a payload that is base64 but does not deserialize into a signed
\* transaction gives the invalid-params error; either is the error member of
\* the response.
C14_BadPayloadErrors ==
    SubmitDone =>
        /\ BadBase64 =>
              result = RpcErr("ParseError", "Invalid character") /\ envelope.error = result
        /\ Undeserializable =>
              /\ result = RpcErr("InvalidParams", "Failed to decode transaction")
              /\ envelope.error = result

\* A submit request whose payload is not base64 was answered with the parse error
C14_Witness == SubmitDone /\ BadBase64 /\ result.v = "ParseError"

\* The params are missing or are not the one string parse_tx asks for
NoString == req.params.shape # "String"
\* The params are a (hash, account) pair whose account id is not valid
InvalidAccount ==
    req.params.shape = "Pair" /\ req.params.account \notin {signer_id(t) : t \in Txs}
\* The request fails the handler's local validation
LocalFailure ==
    /\ req.msg = "Request"
    /\ \/ req.method \in SubmitMethods /\ (NoString \/ BadBase64 \/ Undeserializable)
       \/ /\ req.method \in StatusMethods
          /\ \/ InvalidAccount
             \/ req.params.shape \in {"None", "Number"}
             \/ BadBase64 \/ Undeserializable

\* C15: a request that fails local validation (params missing or ill-shaped,
\* payload not base64 or not a transaction, invalid account id in tx and
\* EXPERIMENTAL_tx_status) sends no message to either worker, never waits or
\* sleeps, and is answered with an RPC error.
C15_LocalFailureSendsNothing ==
    LocalFailure =>
        /\ viewQueries = {} /\ clientSent = {} /\ otherSent = << >> /\ submits = 0
        /\ wait = "none" /\ got = Nil /\ Len(stack) <= 1
        /\ Done => result.k = "RpcError" /\ result.v \in {"InvalidParams", "ParseError"}
                    /\ envelope.error = result

\* A tx request with an invalid account id was answered
C15_Witness ==
    /\ Done /\ LocalFailure /\ req.method = "tx" /\ InvalidAccount
    /\ result = RpcErr("InvalidParams", "Invalid account id")

\* The methods the dispatch of the model has an arm for
KnownMethods ==
    SubmitMethods \cup StatusMethods \cup ReadMethods \cup {"health", "status", "network_info"}
\* The request names a method the dispatch has no arm for
UnknownMethod == req.msg = "Request" /\ req.method \notin KnownMethods

\* C16: a request for an unknown method is answered with a response that has
\* the request's id and the method-not-found error naming the method; no
\* message goes to a worker and the task never waits or sleeps.
C16_UnknownMethod ==
    UnknownMethod =>
        /\ viewQueries = {} /\ clientSent = {} /\ otherSent = << >> /\ submits = 0
        /\ wait = "none" /\ got = Nil /\ Len(stack) <= 1
        /\ Done =>
              /\ result = RpcErr("MethodNotFound", req.method)
              /\ envelope = [id |-> req.id, result |-> Null, error |-> result]

\* A request for an unknown method was answered
C16_Witness == UnknownMethod /\ Done /\ envelope.id = "id2"

\* The message in hand is a request
IsRequest == req.msg = "Request"
\* The failures a handler answers with
FailureKinds == {"RpcError", "ServerError", "ServerMessage"}

\* C17: a request has no response while its task runs, and when it completes
\* it has one response envelope, whatever the outcome: the envelope carries
\* the request's id unchanged and exactly one of result and error, the result
\* when the handler succeeded and the error when it failed.
C17_OneEnvelope ==
    IsRequest =>
        /\ Active => envelope = Nil /\ result = Nil
        /\ ~Active =>
              /\ envelope # Nil /\ envelope.id = req.id
              /\ (envelope.result = Null) # (envelope.error = Null)
              /\ result.k = "Ok" => envelope.result = result
              /\ result.k # "Ok" => envelope.error = result /\ result.k \in FailureKinds

\* A request that failed in the backend was answered with an error envelope
C17_Witness ==
    /\ IsRequest /\ Done /\ req.id = "id2"
    /\ result.k = "ServerError" /\ envelope.error = result /\ envelope.result = Null

\* The message in hand is well-formed but not a request
NonRequest == req.msg \in MessageKinds \ {"Request"}

\* C18: a well-formed message that is not a request (a response, a
\* notification, a batch) is answered with the invalid-request error in an
\* envelope without id; it is never dispatched to a handler, no per-method
\* counter is incremented for it, and no message goes to a worker.
C18_NonRequestRejected ==
    NonRequest =>
        /\ envelope = [id |-> "null", result |-> Null, error |-> RpcErr("InvalidRequest", "-")]
        /\ stack = << >> /\ wait = "none" /\ result = Nil
        /\ counters.requests = << >> /\ counters.errors = << >>
        /\ viewQueries = {} /\ clientSent = {} /\ otherSent = << >> /\ submits = 0

\* A notification was answered with the invalid-request error
C18_Witness ==
    /\ req.msg = "Notification"
    /\ envelope.error = RpcErr("InvalidRequest", "-")

\* The request is an EXPERIMENTAL_broadcast_tx_sync
Sync == IsRequest /\ req.method = "EXPERIMENTAL_broadcast_tx_sync"
\* send_tx has returned to the sync handler and the ingestion worker's reply was r
SyncSubmitted(r) ==
    Sync /\ Returned("send_or_check_tx", "send") /\ sendTrace.resp = r /\ ret = r

\* C19: when the ingestion worker accepts the transaction of an
\* EXPERIMENTAL_broadcast_tx_sync as new, the answer is the acknowledgement
\* with the transaction's hash and is_routed = false; when it routed the
\* transaction elsewhere, the same with is_routed = true; in both cases one
\* transaction message was sent and no status query went to the view worker.
C19_SyncAck ==
    /\ [][SyncSubmitted(Resp("ValidTx")) =>
            /\ result' = V("Ok", get_hash(req.info.tx), "is_routed: false")
            /\ envelope'.result = result'
            /\ viewQueries' = {} /\ submits' = 1]_vars
    /\ [][SyncSubmitted(Resp("RequestRouted")) =>
            /\ result' = V("Ok", get_hash(req.info.tx), "is_routed: true")
            /\ envelope'.result = result'
            /\ viewQueries' = {} /\ submits' = 1]_vars

\* A routed EXPERIMENTAL_broadcast_tx_sync was acknowledged
C19_Witness ==
    /\ Sync /\ Done
    /\ result = V("Ok", get_hash(req.info.tx), "is_routed: true")
    /\ viewQueries = {}

\* send_tx has returned the ingestion worker's shard-not-tracked reply to the
\* sync-check or the commit-wait handler
ShardNotTracked ==
    /\ Returned("send_or_check_tx", "send") \/ Returned("send_tx_commit", "send")
    /\ ret = Resp("DoesNotTrackShard")

\* C20: in the sync-check and commit-wait modes a shard-not-tracked reply of
\* the ingestion worker ends the request with the server error that carries
\* the fixed diagnostic message, and nothing is sent again.
C20_ShardNotTracked ==
    [][ShardNotTracked =>
          /\ result' = does_not_track_shard_err
          /\ envelope'.error = result'
          /\ stack' = << >>
          /\ clientSent' = clientSent /\ viewQueries' = viewQueries]_vars

\* send_tx has returned to the sync-check or the commit-wait handler
AfterSubmit == Returned("send_or_check_tx", "send") \/ Returned("send_tx_commit", "send")
\* The message send_tx sent to the ingestion worker failed in the mailbox
Unreachable == sendTrace.resp.k = "MailboxError"
\* The ingestion worker's reply is none the two handlers have an arm for
OtherReply == ret = Resp("NoResponse") \/ ret = Resp("Ban")

\* The claim C21 as worded: in the sync-check and commit-wait modes every
\* other reply of the ingestion worker, no-response among them, and every
\* failure to reach the worker come out as the InternalError server error.
C21_Original ==
    [][AfterSubmit /\ (OtherReply \/ Unreachable)
          => result' = ServerError("InternalError", "-")]_vars

\* C21: in the sync-check mode every other reply of the ingestion worker,
\* no-response among them, comes out as InternalError; in the commit-wait mode
\* no-response comes out as the Timeout server error and the remaining replies
\* as InternalError; in both modes a failure to reach the worker comes out as
\* Closed or Timeout, whichever the mailbox reported.
C21_OtherReplies ==
    [][AfterSubmit =>
          /\ ret = Resp("Ban") => result' = ServerError("InternalError", "-")
          /\ ret = Resp("NoResponse") =>
                result' = IF Top.fn = "send_tx_commit" THEN ServerError("Timeout", "-")
                          ELSE ServerError("InternalError", "-")
          /\ Unreachable => result' = ServerError(sendTrace.resp.v, "-")
          /\ OtherReply \/ Unreachable => envelope'.error = result' /\ stack' = << >>]_vars

\* send_tx has returned the worker's no-response to the commit-wait handler
C21_Witness ==
    /\ Returned("send_tx_commit", "send")
    /\ ret = Resp("NoResponse")
    /\ sendTrace.resp = ret

EndsWithTimeout == Active /\ stack' = << >> /\ result' = timeout_err
\* A Timeout that is no elapsed deadline: the ingestion worker's no-response in
\* the commit-wait mode, or the submission's mailbox timing out
TimeoutReply ==
    /\ AfterSubmit
    /\ \/ Top.fn = "send_tx_commit" /\ ret = Resp("NoResponse")
       \/ sendTrace.resp = Mailbox("Timeout")

Sends ==
    \/ wait' \in {"view", "client"} /\ stack' # stack
    \/ submits' # submits
    \/ Len(otherSent') # Len(otherSent)

\* C23: once a message sent on behalf of a request has failed with mailbox
\* closed or mailbox timeout, the request sends no further message to a worker
\* and ends with an error response.
C23_MailboxFailureFatal ==
    /\ [][Active /\ failed => ~Sends]_vars
    /\ [](Done /\ failed => result.k # "Ok")

\* C24: every dispatched request increments the request counter of its method
\* exactly once; a request answered with an error increments the error
\* counter, labelled with its method and the error's code, exactly once,
\* whatever the method; a request answered with a success never increments
\* the error counter.
C24_PerMethodCounters ==
    IsRequest =>
        /\ counters.requests = <<req.method>>
        /\ Active => counters.errors = << >>
        /\ Done /\ result.k = "Ok" => counters.errors = << >>
        /\ Done /\ result.k # "Ok" => counters.errors = << <<req.method, error_code(result)>> >>

\* The request is an EXPERIMENTAL_check_tx
CheckTx == IsRequest /\ req.method = "EXPERIMENTAL_check_tx"
\* send_tx has returned rv to the handler of an EXPERIMENTAL_check_tx
Checked(rv) == CheckTx /\ Returned("send_or_check_tx", "send") /\ ret = rv

\* C25: every transaction message an EXPERIMENTAL_check_tx sends to the
\* ingestion worker has check_only = true, so none asks for ingestion; when
\* the transaction is valid the answer is null, and when the worker routed the
\* request elsewhere the answer is the shard-not-tracked error, not an
\* acknowledgement.
C25_CheckOnly ==
    /\ [](CheckTx => submits = 0 /\ \A m \in clientSent : m.check_only)
    /\ [][Checked(Resp("ValidTx")) =>
            result' = Ok("null") /\ envelope'.result = result']_vars
    /\ [][Checked(Resp("RequestRouted")) =>
            result' = does_not_track_shard_err /\ envelope'.error = result']_vars

\* send_tx has returned the worker's routed-elsewhere reply to check_tx
C25_Witness ==
    /\ Checked(Resp("RequestRouted"))
    /\ clientSent = {[transaction |-> req.info.tx, check_only |-> TRUE]}

\* The read-only methods the claim C26 lists
ProxyMethods ==
    {"block", "chunk", "EXPERIMENTAL_receipt", "query", "gas_price", "validators",
     "EXPERIMENTAL_validators_ordered", "next_light_client_block", "light_client_proof",
     "EXPERIMENTAL_protocol_config", "EXPERIMENTAL_changes", "EXPERIMENTAL_changes_in_block"}
\* A request of one of them whose params the handler accepts
ProxyCall ==
    IsRequest /\ req.method \in ProxyMethods /\ is_ok(parse_params(req.params, "Object"))
\* The messages the handler of the request sends, in order
FirstRequest == [to |-> "view", msg |-> first_message(HandlerOf(req.method))]
SecondRequest(h) ==
    [to |-> "view", msg |-> second_message(HandlerOf(req.method)), block_hash |-> h]

\* The claim C26 as worded: each read-only method sends exactly one request to
\* the view worker per call, never polls or retries, and sends nothing to the
\* ingestion worker.
C26_Original ==
    ProxyCall =>
        /\ clientSent = {} /\ submits = 0 /\ wait # "sleep"
        /\ Len(otherSent) <= 1
        /\ Done => otherSent = <<FirstRequest>>

\* C26: a read-only method sends nothing to the ingestion worker and never
\* sleeps, polls or repeats a request. block, chunk, EXPERIMENTAL_receipt,
\* query, gas_price, validators, EXPERIMENTAL_validators_ordered,
\* next_light_client_block and EXPERIMENTAL_protocol_config send exactly one
\* request to the view worker per call; light_client_proof,
\* EXPERIMENTAL_changes and EXPERIMENTAL_changes_in_block send one request and,
\* when its reply holds a value, a second, different request.
C26_ReadOnlyProxy ==
    /\ [](ProxyCall =>
            /\ clientSent = {} /\ submits = 0 /\ viewQueries = {} /\ wait \in {"none", "view"}
            /\ \/ otherSent \in {<< >>, <<FirstRequest>>}
               \/ \E h \in BlockHashes : otherSent = <<FirstRequest, SecondRequest(h)>>
            /\ \A h \in BlockHashes : FirstRequest.msg # SecondRequest(h).msg
            /\ Len(otherSent) = 2 => req.method \in TwoStepMethods
            /\ Done => Len(otherSent) >= 1)
    /\ [][ProxyCall /\ req.method \in TwoStepMethods /\ Len(otherSent) = 1 /\ wait = "view" =>
            IF got'.k = "Reply" /\ got'.v = "Ok"
              THEN otherSent' = <<FirstRequest, SecondRequest(got'.c)>> /\ wait' = "view"
            ELSE otherSent' = otherSent /\ stack' = << >> /\ result'.k # "Ok"]_vars

\* An EXPERIMENTAL_changes request was answered after its second request
C26_Witness ==
    /\ ProxyCall /\ Done /\ req.method = "EXPERIMENTAL_changes"
    /\ \E h \in BlockHashes : otherSent = <<FirstRequest, SecondRequest(h)>>

ExistsReturned == Returned("send_tx", "exists")
\* tx_exists takes the reply to its status query
ExistsTakes == Active /\ Top.fn = "tx_exists" /\ wait = "view" /\ now' = now /\ got' # Nil

\* The claim C28 as worded: true, false and the Timeout error are the only
\* outcomes of tx_exists.
C28_Original ==
    ExistsReturned => ret \in {Ok("true"), Ok("false"), ServerError("Timeout", "-")}

\* C28: tx_exists has exactly four outcomes.  It returns true in the step that
\* takes a status record, false in the step that takes unknown-transaction, the
\* internal error in the step that takes a mailbox failure, and the Timeout
\* error, counted in RPC_TIMEOUT_TOTAL, when its deadline elapses first; any
\* other reply is followed by a sleep.  It never returns true without a found
\* reply and never false without an unknown-transaction reply.
C28_ExistsOutcomes ==
    /\ [](ExistsReturned =>
            CASE ret = Ok("true") -> got.k = "Final"
              [] ret = Ok("false") -> got = ViewErr("MissingTransaction")
              [] ret = ServerError("InternalError", "-") -> got.k = "MailboxError"
              [] ret = ServerError("Timeout", "-") -> got = Nil /\ timeouts > 0
              [] OTHER -> FALSE)
    /\ [][ExistsTakes =>
            CASE got'.k = "Final" -> stack' = Base /\ ret' = Ok("true")
              [] got' = ViewErr("MissingTransaction") -> stack' = Base /\ ret' = Ok("false")
              [] got'.k = "MailboxError" ->
                    stack' = Base /\ ret' = ServerError("InternalError", "-")
              [] OTHER -> Len(stack') = Len(stack) /\ wait' = "sleep"]_vars

\* The existence check found the status record after a not-yet-known reply
C28_Witness ==
    /\ ExistsReturned
    /\ ret = Ok("true")
    /\ got.k = "Final"
    /\ Pending \in viewSeen

\* A session sends a status query in this step: it comes to wait for the view
\* worker's reply
QuerySent ==
    /\ now' = now
    /\ Len(stack') > 0
    /\ IsSession(stack'[Len(stack')])
    /\ stack'[Len(stack')].pc = "query"
    /\ wait' = "view"
    /\ ~(wait = "view" /\ stack' = stack)
\* The status query the request is to send from the session on top of stk
ExpectedQuery(stk) ==
    [tx_hash |-> req.info.hash, signer_account_id |-> req.info.account_id,
     fetch_receipt |-> (stk[Len(stk)].fn = "tx_status_fetch"
                        /\ req.method = "EXPERIMENTAL_tx_status")]

\* C29: a status query that resolve sends carries fetch_receipt = true when the
\* request is EXPERIMENTAL_tx_status and fetch_receipt = false when it is tx or
\* broadcast_tx_commit; a status query that the existence check sends carries
\* fetch_receipt = false, whatever the request; every query is for the hash and
\* the account of the request.  tx and EXPERIMENTAL_tx_status send their first
\* query for a (hash, account) pair as well as for an encoded transaction.
C29_ReceiptRouting ==
    /\ [][QuerySent =>
            /\ ExpectedQuery(stack') \in viewQueries'
            /\ viewQueries' \subseteq viewQueries \cup {ExpectedQuery(stack')}]_vars
    /\ [][/\ Returned("tx_status_common", "start")
          /\ req.info.kind \in {"Transaction", "TransactionId"}
          => QuerySent]_vars

\* An EXPERIMENTAL_tx_status for an encoded transaction asked for the receipts in
\* resolve and did not in the existence check of its resubmission
C29_Witness ==
    /\ req.method = "EXPERIMENTAL_tx_status"
    /\ req.info.kind = "Transaction"
    /\ Active /\ Top.fn = "tx_exists"
    /\ \E q \in viewQueries : q.fetch_receipt
    /\ \E q \in viewQueries : ~q.fetch_receipt

\* The first resolve of a broadcast_tx_commit has returned to send_tx_commit
FirstResolveReturned == Commit /\ Returned("send_tx_commit", "fetch")
\* The message that asks the ingestion worker to ingest the request's transaction
Submission == [transaction |-> req.info.tx, check_only |-> FALSE]

\* C30: broadcast_tx_commit runs resolve before it submits: while its first
\* resolve runs no ingesting message has been sent.  When that resolve returns
\* an outcome the request ends with it, and when it returns the invalidity
\* error the request ends with TxExecutionError, in both cases without an
\* ingesting message ever sent; on any other return the transaction is
\* submitted, in that step.
C30_LooksBeforeSubmit ==
    /\ [](Commit /\ Active /\ stack[1].pc \in {"start", "fetch"} =>
            submits = 0 /\ Submission \notin clientSent)
    /\ [][FirstResolveReturned =>
            CASE ret.k = "Ok" ->
                   /\ stack' = << >> /\ result' = ret
                   /\ submits' = 0 /\ clientSent' = clientSent
              [] ret.k = "TxStatusError" /\ ret.v = "InvalidTx" ->
                   /\ stack' = << >> /\ result' = ServerError("TxExecutionError", ret.c)
                   /\ submits' = 0 /\ clientSent' = clientSent
              [] OTHER ->
                   /\ submits' = 1 /\ Submission \in clientSent'
                   /\ wait' = "client"]_vars

\* A broadcast_tx_commit ended with TxExecutionError on its first resolve, whose
\* resubmission was the only transaction message of the request
C30_Witness ==
    /\ Commit /\ Done
    /\ result.k = "ServerError" /\ result.v = "TxExecutionError"
    /\ viewQueries # {}
    /\ clientSent = {Resubmission}
    /\ submits = 0

\* resolve is running: tx_status_fetch is on the call stack
ResolveRunning == \E i \in 1..Len(stack) : stack[i].fn = "tx_status_fetch"

\* C31: no step taken while resolve runs sends the ingestion worker a message
\* with check_only = false, in any request; and a tx or EXPERIMENTAL_tx_status
\* request never sends one: every transaction message it has sent is the
\* resubmission of its transaction with check_only = true.
C31_StatusNeverIngests ==
    /\ [][ResolveRunning =>
            /\ submits' = submits
            /\ \A m \in clientSent' \ clientSent : m.check_only]_vars
    /\ [](req.method \in StatusMethods =>
            /\ submits = 0
            /\ clientSent \subseteq {Resubmission})

\* An EXPERIMENTAL_tx_status for an encoded transaction ended after its
\* resubmission was answered by the ingestion worker
C31_Witness ==
    /\ req.method = "EXPERIMENTAL_tx_status"
    /\ Done
    /\ clientSent = {Resubmission}
    /\ viewQueries # {}
    /\ submits = 0

\* The phase a broadcast_tx_commit is in: the await of send_tx_commit it is at
Phase == IF Active THEN stack[1].pc ELSE "done"
Rank(p) ==
    CASE p = "start" -> 0
      [] p = "fetch" -> 1
      [] p = "send" -> 2
      [] p = "poll" -> 3
      [] OTHER -> 4
\* A deadline-bounded session is running
HasSession == \E i \in 1..Len(stack) : stack[i].dl # NoDeadline
\* The outermost deadline-bounded session of the phase
TopSession == stack[CHOOSE i \in 1..Len(stack) :
                      stack[i].dl # NoDeadline /\ \A j \in 1..(i - 1) : stack[j].dl = NoDeadline]
\* The session the phase is bounded by
SessionOf(p) ==
    CASE p = "fetch" -> "tx_status_fetch"
      [] p = "send" -> "tx_exists"
      [] OTHER -> "tx_polling"

\* The claim C32 as worded: no phase of a broadcast_tx_commit lasts longer than
\* one polling timeout, so that three polling timeouts bound the request.
C32_Original ==
    Commit /\ Active /\ HasSession => now <= polling_config.polling_timeout

\* C32: a broadcast_tx_commit goes through its phases in order and through each
\* at most once: the pre-submission resolve, the submission with the
\* duplicate-nonce existence check, and the post-submission polling.  Each
\* phase opens at most one outermost deadline-bounded session, whose deadline
\* is one polling timeout after the start of the phase; no session nested in it
\* has an earlier deadline, and the phase's sessions are all cut off when the
\* task is first polled after that deadline, so a phase lasts at most one
\* polling timeout plus the scheduling lag of that poll, and the three phases at
\* most three times that.  With every message answered the request terminates.
C32_BoundedCommit ==
    /\ [][Commit /\ Active => Rank(Phase') >= Rank(Phase)]_vars
    /\ [](Commit /\ Active /\ HasSession =>
            /\ Phase \in {"fetch", "send", "poll"}
            /\ TopSession.fn = SessionOf(Phase)
            /\ TopSession.dl = polling_config.polling_timeout
            /\ \A i \in 1..Len(stack) :
                  stack[i].dl # NoDeadline => stack[i].dl >= TopSession.dl
            /\ now <= polling_config.polling_timeout + MaxLag)
    /\ [][Commit /\ Active /\ ~HasSession /\ HasSession' =>
            \/ Phase' # Phase
            \/ Phase = "send" /\ Top.fn = "send_tx" /\ Top.pc = "send"]_vars
    /\ [][Commit /\ Phase = "send" /\ Phase' = "send" /\ ~(Top.fn = "send_tx" /\ Top.pc = "send")
            => ~(stack'[Len(stack')].fn = "send_tx" /\ stack'[Len(stack')].pc = "send")]_vars
    /\ (Commit /\ Active ~> ~Active)

\* A broadcast_tx_commit is in its third phase, the post-submission polling,
\* which has run for the whole polling timeout and the scheduling lag
C32_Witness ==
    /\ Commit /\ Phase = "poll" /\ HasSession
    /\ TopSession.fn = "tx_polling"
    /\ submits = 1
    /\ now = polling_config.polling_timeout + MaxLag

\* The request is for a two-step read method and its params were accepted
TwoStep == ProxyCall /\ req.method \in TwoStepMethods
\* The handler takes the reply to its first request in this step
TakesFirst == TwoStep /\ Active /\ Top.pc = "send" /\ wait = "view" /\ got' # Nil
\* The error a first reply that holds no value comes out as
FirstError(fn, r) ==
    CASE r.k = "Reply" -> ServerMessage(r.c, "-")
      [] fn = "light_client_execution_outcome_proof" -> ServerError(r.v, "-")
      [] OTHER -> ServerMessage(r.v, "-")

\* C33: a two-step read method has sent only its first request while it awaits
\* the first reply.  When that reply holds a value the second request is sent in
\* the same step, for the block hash in that value; when it is a mailbox
\* failure or an error of the view worker nothing more is sent and the request
\* ends in that step with the error made from that reply.  While the second
\* request is outstanding its block hash is the one of the first reply.
C33_SecondAfterFirst ==
    /\ [](TwoStep /\ Active /\ Top.pc = "send" => otherSent = <<FirstRequest>>)
    /\ [](TwoStep /\ Active /\ Top.pc = "send2" =>
            /\ got \in {BlockReply(h) : h \in BlockHashes}
            /\ otherSent = <<FirstRequest, SecondRequest(got.c)>>)
    /\ [][TakesFirst =>
            IF got'.k = "Reply" /\ got'.v = "Ok"
              THEN /\ otherSent' = <<FirstRequest, SecondRequest(got'.c)>>
                   /\ wait' = "view" /\ result' = Nil
              ELSE /\ otherSent' = otherSent
                   /\ stack' = << >>
                   /\ result' = FirstError(Top.fn, got')]_vars

\* A light_client_proof asked for the proof of block b2, the block of the
\* execution outcome its first request returned
C33_Witness ==
    /\ TwoStep /\ req.method = "light_client_proof"
    /\ Active /\ Top.pc = "send2"
    /\ got = BlockReply("b2")
    /\ otherSent[2].block_hash = "b2"

\* The transactions among the first n generated that account a signed
SignedBy(a, n) == {i \in 1..n : generated[i].signer_id = a}
\* The transactions that use account a, as signer or as receiver
Using(a) == {i \in 1..Len(generated) : a \in {generated[i].signer_id, generated[i].receiver_id}}

\* C34: the nonce of every generated transaction is the number of transactions
\* its signer has signed up to and including it, so the nonces of one account
\* are 1, 2, 3, ... in generation order; and when use_unique_accounts is set
\* every account is used, as signer or as receiver, by at most one transaction.
C34_NoncesAndUniqueAccounts ==
    /\ \A i \in 1..Len(generated) :
          generated[i].nonce = Cardinality(SignedBy(generated[i].signer_id, i))
    /\ use_unique_accounts =>
          \A x \in AccountIndices : Cardinality(Using(get_account_id(x))) <= 1

\* An account has signed its third transaction, another account having signed
\* one in between
C34_Witness ==
    \E i \in 1..Len(generated) :
        /\ generated[i].nonce = 3
        /\ \E j \in 1..i : generated[j].signer_id # generated[i].signer_id

====
